---- MODULE Spec2Model ----
(***************************************************************************)
(* pychrony: the four query operations of src/pychrony/_core/_bindings.py *)
(* (get_tracking, get_sources, get_source_stats, get_rtc_data) as a state  *)
(* machine over the libchrony calls they make.  The library and the daemon *)
(* behind it are the environment: every status, count and record they      *)
(* hand back is a nondeterministic choice.                                 *)
(***************************************************************************)
EXTENDS Integers, Sequences, FiniteSets, TLC

\* ------------------------------------------------------------------ bounds

\* Most response chunks the daemon makes a session consume for one request.
MaxChunks == 2

\* Largest record count the daemon reports.
MaxRecords == 2

\* ------------------------------------------------------- program constants

Calls == {1, 2}

Ops == {"get_tracking", "get_sources", "get_source_stats", "get_rtc_data"}

ListOps == {"get_sources", "get_source_stats"}

\* The report name each operation passes to libchrony.
ReportName(o) ==
    CASE o = "get_tracking" -> "tracking"
      [] o = "get_sources" -> "sources"
      [] o = "get_source_stats" -> "sourcestats"
      [] OTHER -> "rtcdata"

DEFAULT_SOCKET_PATHS == <<"/run/chrony/chronyd.sock", "/var/run/chrony/chronyd.sock">>

\* socket_path=None
NoPath == "None"

\* An explicit socket_path argument.
CustomPath == "/custom/path/chronyd.sock"

Paths == {DEFAULT_SOCKET_PATHS[1], DEFAULT_SOCKET_PATHS[2], CustomPath}

\* _ffi.NULL, the value of session[0] before chrony_init_session stores a handle.
NULL == 0

\* errno EACCES as chrony_open_socket reports it.
EACCES == -13

\* ------------------------------------------------------------ environment

\* Negative values chrony_open_socket can return.
OpenFailures == {EACCES, -2, -1}

\* Descriptors the operating system hands out.
FdPool == {3, 4}

\* Session handles chrony_init_session allocates.
HandlePool == {11, 12}

\* Non-zero chrony_err statuses (10: the daemon has no data for the report).
ErrStatus == {1, 10}

\* What a path is on the filesystem.
FsStates == {"absent", "noaccess", "ok"}

Min(S) == CHOOSE x \in S : \A y \in S : x <= y

\* ------------------------------------------------------------------ state

VARIABLES
    call,      \* per call: the locals of the running query operation
    pend,      \* per call: the return value or exception travelling to the caller
    outcome,   \* per call: what the caller received
    sess,      \* per call: libchrony's side of the session the call initialised
    world,     \* _LIBRARY_AVAILABLE, filesystem, open descriptors, live sessions
    obs,       \* per call: what the library saw the call do (a recording mock)
    fn         \* a helper function called on its own: its arguments and result

callVars == <<call, pend, outcome, sess, world, obs>>

vars == <<call, pend, outcome, sess, world, obs, fn>>

NoExc == [kind |-> "none", exc |-> "none", coded |-> FALSE, code |-> 0,
          msg |-> "", names |-> <<>>, value |-> "none"]

\* raise exc(msg, error_code=code); coded = FALSE is error_code=None.
Raise(exc, coded, code, msg) ==
    [kind |-> "raise", exc |-> exc, coded |-> coded, code |-> code,
     msg |-> msg, names |-> <<>>, value |-> "none"]

\* The same with the values the f-string puts into the message.
RaiseNaming(exc, coded, code, msg, names) ==
    [Raise(exc, coded, code, msg) EXCEPT !.names = names]

\* return value
Return(value) ==
    [kind |-> "return", exc |-> "none", coded |-> FALSE, code |-> 0,
     msg |-> "", names |-> <<>>, value |-> value]

\* A plausible slip: the permission error declared as a kind of connection error.
BaseClass_permission_under_connection(cls) ==
    CASE cls = "ChronyError" -> "Exception"
      [] cls = "ChronyPermissionError" -> "ChronyConnectionError"
      [] cls \in {"ChronyConnectionError", "ChronyDataError", "ChronyLibraryError"} ->
            "ChronyError"
      [] OTHER -> "object"

\* class ChronyError(Exception); class ChronyConnectionError(ChronyError);
\* class ChronyPermissionError(ChronyError); class ChronyDataError(ChronyError);
\* class ChronyLibraryError(ChronyError)
BaseClass(cls) ==
    CASE cls = "ChronyError" -> "Exception"
      [] cls \in {"ChronyConnectionError", "ChronyPermissionError", "ChronyDataError",
                  "ChronyLibraryError"} -> "ChronyError"
      [] OTHER -> "object"

\* issubclass(cls, handled)
RECURSIVE issubclass(_, _)
issubclass(cls, handled) ==
    \/ cls = handled
    \/ cls # "object" /\ issubclass(BaseClass(cls), handled)

\* An "except handled:" clause of the caller receives what the call ended with.
ExceptClauseReceives(handled, result) ==
    result.kind = "raise" /\ issubclass(result.exc, handled)

IdleCall ==
    [op |-> "get_tracking", pc |-> "idle", socket_path |-> NoPath,
     actual_path |-> NoPath, fd |-> 0, opened |-> FALSE, session |-> NULL,
     err |-> 0, num_records |-> 0, i |-> 0, results |-> <<>>, data |-> <<>>]

NoSess == [st |-> "none", pending |-> 0, idx |-> 0, handle |-> NULL]

NoObs ==
    [deinit |-> <<>>,          \* handles passed to chrony_deinit_session
     initOk |-> FALSE,         \* chrony_init_session returned 0
     reqCountOk |-> FALSE,     \* chrony_request_report_number_records returned 0
     countRead |-> FALSE,      \* chrony_get_report_number_records was called
     countReadPending |-> {},  \* responses still pending when the count was read
     requested |-> <<>>,       \* indices passed to chrony_request_record
     requestedIn |-> {},       \* session states chrony_request_record was issued in
     recReqOk |-> FALSE,       \* the last chrony_request_record returned 0
     decoded |-> <<>>,         \* record index positioned at each field decode
     decodedIn |-> {},         \* session states fields were decoded in
     lastNeeds |-> FALSE,      \* last answer of chrony_needs_response
     needsTrue |-> 0,          \* times it answered true since the last request
     processed |-> 0,          \* chrony_process_response calls since the last request
     failed |-> "none",        \* first protocol step that returned non-zero
     failPhase |-> "none",     \* "count" or "record": the phase it failed in
     opsAfterFail |-> 0,       \* session operations (deinit aside) after it
     used |-> FALSE,           \* some session operation (deinit aside) was issued
     opens |-> <<>>,           \* paths passed to chrony_open_socket
     initCalled |-> FALSE,     \* chrony_init_session was called
     fieldCalls |-> {},        \* what the field decoders did
     extracted |-> <<>>,       \* the dicts the extractor returned
     enums |-> {},             \* enum fields of the records the extractor was given
     targets |-> {},           \* calls whose sessions the session operations acted on
     deinitOf |-> <<>>,        \* calls whose sessions chrony_deinit_session released
     probes |-> <<>>]          \* os.path.exists probes of _find_socket_path

\* No helper function has been called on its own.
NoFn == [f |-> "none"]

\* The states a single query call can start in.
InitWith(active) ==
    /\ \E lib \in BOOLEAN, closes \in BOOLEAN, fs \in [Paths -> FsStates] :
          world = [available |-> lib, deinitCloses |-> closes, fs |-> fs,
                   openFds |-> {}, liveSessions |-> {}, endless |-> FALSE,
                   lastHandle |-> NULL, narrow |-> FALSE, sampled |-> FALSE]
    /\ \E ops \in [Calls -> Ops], sp \in [Calls -> {NoPath, CustomPath}] :
          call = [c \in Calls |->
                    IF c \in active
                    THEN [IdleCall EXCEPT !.op = ops[c], !.pc = "start",
                                          !.socket_path = sp[c]]
                    ELSE IdleCall]
    \* paths no active call looks at are left absent
    /\ \A p \in Paths :
          (\A c \in active :
              IF call[c].socket_path = NoPath THEN p = CustomPath ELSE p # CustomPath)
          => world.fs[p] = "absent"
    /\ pend = [c \in Calls |-> NoExc]
    /\ outcome = [c \in Calls |-> NoExc]
    /\ sess = [c \in Calls |-> NoSess]
    /\ obs = [c \in Calls |-> NoObs]
    /\ fn = NoFn

Init == InitWith({1})

\* ------------------------------------------------------- control transfer

\* A raise before the try block: nothing to unwind, the caller gets it at once.
RaiseOutside(c, e) ==
    /\ call' = [call EXCEPT ![c].pc = "done"]
    /\ outcome' = [outcome EXCEPT ![c] = e]
    /\ pend' = pend

\* A plausible slip: the session kept in a module-level variable that every
\* call overwrites, so that a call passes the handle stored last.
SessionArg_shared(c) == world.lastHandle

\* session[0]: the handle a call passes to the session operations.
SessionArg(c) == call[c].session

\* The call whose session the handle that call c passes denotes.
Target(c) ==
    LET live == {d \in Calls : sess[d].handle = SessionArg(c) /\ sess[d].st # "deinit"}
    IN  IF live = {} THEN c ELSE CHOOSE d \in live : TRUE

\* The counters of the drain loop stop counting one past the longest reply
\* a daemon that completes its replies sends.
Counted(n) == IF n > MaxChunks THEN n ELSE n + 1

\* Every session operation is recorded, and counted if a step has failed before.
SessionOp(o, c) ==
    LET p == [o EXCEPT !.used = TRUE, !.targets = @ \cup {Target(c)}]
    IN  IF o.failed # "none" THEN [p EXCEPT !.opsAfterFail = @ + 1] ELSE p

\* A protocol step returned a non-zero status.
StepFailed(o, step, phase) ==
    IF o.failed = "none" THEN [o EXCEPT !.failed = step, !.failPhase = phase] ELSE o

\* ------------------------------------------------------------- the prelude

\* A plausible slip: the availability check is left out of the operation.
check_library_available_skipped(c) ==
    /\ call[c].pc = "start"
    /\ call' = [call EXCEPT ![c].pc = "find_path"]
    /\ UNCHANGED <<pend, outcome, sess, world, obs>>

\* _check_library_available()
check_library_available(c) ==
    /\ call[c].pc = "start"
    /\ IF ~world.available
       THEN RaiseOutside(c, Raise("ChronyLibraryError", FALSE, 0,
                                  "libchrony bindings not available"))
       ELSE /\ call' = [call EXCEPT ![c].pc = "find_path"]
            /\ UNCHANGED <<pend, outcome>>
    /\ UNCHANGED <<sess, world, obs>>

\* os.path.exists(path)
PathExists(p) == world.fs[p] # "absent"

\* os.access(path, os.R_OK | os.W_OK)
PathAccess(p) == world.fs[p] = "ok"

\* A plausible slip: every default is probed and the last that exists wins.
ProbedDefaults_last_wins ==
    LET found == {k \in DOMAIN DEFAULT_SOCKET_PATHS : PathExists(DEFAULT_SOCKET_PATHS[k])}
        last == IF found = {} THEN Len(DEFAULT_SOCKET_PATHS)
                ELSE CHOOSE k \in found : \A j \in found : j <= k
    IN  SubSeq(DEFAULT_SOCKET_PATHS, 1, last)

\* The default paths _find_socket_path probes: up to the first that exists.
ProbedDefaults ==
    LET found == {k \in DOMAIN DEFAULT_SOCKET_PATHS : PathExists(DEFAULT_SOCKET_PATHS[k])}
        last == IF found = {} THEN Len(DEFAULT_SOCKET_PATHS) ELSE Min(found)
    IN  SubSeq(DEFAULT_SOCKET_PATHS, 1, last)

\* raise ChronyConnectionError(f"chronyd socket not found. Tried: {', '.join(DEFAULT_SOCKET_PATHS)}. ...")
SocketNotFound ==
    RaiseNaming("ChronyConnectionError", FALSE, 0,
                "chronyd socket not found. Tried: {}. Is chronyd running?",
                DEFAULT_SOCKET_PATHS)

\* A plausible slip: an explicit path is checked for existence like a default.
find_socket_path_checks_explicit(c) ==
    /\ call[c].pc = "find_path"
    /\ LET probed == IF call[c].socket_path # NoPath
                     THEN <<call[c].socket_path>> ELSE ProbedDefaults
           hit == probed[Len(probed)]
       IN  /\ obs' = [obs EXCEPT ![c].probes = probed]
           /\ IF PathExists(hit)
              THEN /\ call' = [call EXCEPT ![c].actual_path = hit, ![c].pc = "open"]
                   /\ UNCHANGED <<pend, outcome>>
              ELSE RaiseOutside(c, SocketNotFound)
    /\ UNCHANGED <<sess, world>>

\* _find_socket_path(socket_path)
find_socket_path(c) ==
    /\ call[c].pc = "find_path"
    /\ IF call[c].socket_path # NoPath
       THEN /\ call' = [call EXCEPT ![c].actual_path = call[c].socket_path,
                                    ![c].pc = "open"]
            /\ UNCHANGED <<pend, outcome, obs>>
       ELSE LET probed == ProbedDefaults
                hit == probed[Len(probed)]
            IN  /\ obs' = [obs EXCEPT ![c].probes = probed]
                /\ IF PathExists(hit)
                   THEN /\ call' = [call EXCEPT ![c].actual_path = hit,
                                                ![c].pc = "open"]
                        /\ UNCHANGED <<pend, outcome>>
                   ELSE RaiseOutside(c, SocketNotFound)
    /\ UNCHANGED <<sess, world>>

\* What the library and the daemon can answer. Where two calls run side by
\* side they answer from a smaller repertoire: one failing status, replies
\* of at most one chunk, at most one record.
Statuses == IF world.narrow THEN {0, 10} ELSE {0} \cup ErrStatus

Chunks == IF world.narrow THEN 0..1 ELSE 0..MaxChunks

RecordCounts == IF world.narrow THEN 0..1 ELSE -1..MaxRecords

\* What chrony_open_socket(path) can return: a failure, or a fresh descriptor
\* when the socket is there and usable.
OpenResults(p) ==
    (IF world.narrow THEN {-2} ELSE OpenFailures) \cup
        (IF world.fs[p] = "ok" /\ FdPool \ world.openFds # {}
         THEN {Min(FdPool \ world.openFds)} ELSE {})

\* A plausible slip: only the errno decides, the access pre-check is left out.
OpenFailure_errno_only(path, fd) ==
    IF fd = EACCES
    THEN RaiseNaming("ChronyPermissionError", TRUE, fd,
                     "Permission denied accessing {}", <<path>>)
    ELSE RaiseNaming("ChronyConnectionError", TRUE, fd,
                     "Failed to connect to chronyd at {}", <<path>>)

\* if fd == -13 or (os.path.exists(actual_path) and not os.access(...)): raise
\* ChronyPermissionError(..., error_code=fd); raise ChronyConnectionError(..., error_code=fd)
OpenFailure(path, fd) ==
    IF fd = EACCES \/ (PathExists(path) /\ ~PathAccess(path))
    THEN RaiseNaming("ChronyPermissionError", TRUE, fd,
                     "Permission denied accessing {}", <<path>>)
    ELSE RaiseNaming("ChronyConnectionError", TRUE, fd,
                     "Failed to connect to chronyd at {}", <<path>>)

\* fd = _lib.chrony_open_socket(actual_path); if fd < 0: raise ...
chrony_open_socket(c) ==
    /\ call[c].pc = "open"
    /\ \E fd \in OpenResults(call[c].actual_path) :
          IF fd < 0
          THEN /\ call' = [call EXCEPT ![c].fd = fd, ![c].pc = "done"]
               /\ outcome' = [outcome EXCEPT ![c] = OpenFailure(call[c].actual_path, fd)]
               /\ world' = world
          ELSE /\ call' = [call EXCEPT ![c].fd = fd, ![c].opened = TRUE, ![c].pc = "init"]
               /\ world' = [world EXCEPT !.openFds = @ \cup {fd}]
               /\ outcome' = outcome
    /\ obs' = [obs EXCEPT ![c].opens = Append(@, call[c].actual_path)]
    /\ UNCHANGED <<pend, sess>>

\* A plausible slip: the failing status raised as a data error.
InitFailure_as_data(err) ==
    Raise("ChronyDataError", TRUE, err, "Failed to initialize chrony session")

\* raise ChronyConnectionError("Failed to initialize chrony session", error_code=err)
InitFailure(err) ==
    Raise("ChronyConnectionError", TRUE, err, "Failed to initialize chrony session")

\* session = _ffi.new("chrony_session **"); try: err = _lib.chrony_init_session(session, fd)
chrony_init_session(c) ==
    /\ call[c].pc = "init"
    /\ HandlePool \ world.liveSessions # {}
    /\ LET h == Min(HandlePool \ world.liveSessions) IN
       \E err \in Statuses, stored \in BOOLEAN :
          /\ (err = 0 => stored)
          /\ IF err # 0
             THEN /\ call' = [call EXCEPT ![c].err = err, ![c].pc = "finally",
                                          ![c].session = IF stored THEN h ELSE NULL]
                  /\ pend' = [pend EXCEPT ![c] = InitFailure(err)]
                  /\ obs' = [obs EXCEPT ![c].initCalled = TRUE]
             ELSE /\ call' = [call EXCEPT ![c].err = err, ![c].pc = "req_count",
                                          ![c].session = h]
                  /\ obs' = [obs EXCEPT ![c].initOk = TRUE, ![c].initCalled = TRUE]
                  /\ pend' = pend
          /\ IF stored
             THEN /\ sess' = [sess EXCEPT ![c] = [NoSess EXCEPT !.st = "init", !.handle = h]]
                  /\ world' = [world EXCEPT !.liveSessions = @ \cup {h}, !.lastHandle = h]
             ELSE UNCHANGED <<sess, world>>
    /\ outcome' = outcome

\* ------------------------------------------------------ the try block

\* A plausible slip: a list operation that has collected records returns them
\* when a later record fails.
RaiseInTry_keep_partial(c, e) ==
    pend' = [pend EXCEPT ![c] =
                IF call[c].op \in ListOps /\ call[c].results # <<>>
                THEN Return("list") ELSE e]

\* raise inside the try block: the finally clause runs before the caller sees it.
RaiseInTry(c, e) == pend' = [pend EXCEPT ![c] = e]

\* The session state an operation finds: the phase and whether responses are pending.
SessTag(s) == <<s.st, s.pending > 0>>

RtcNotAvailable ==
    Raise("ChronyDataError", FALSE, 0, "RTC tracking is not available (rtcsync or rtcfile directive)")

\* err = _lib.chrony_request_report_number_records(session[0], name)
chrony_request_report_number_records(c) ==
    /\ call[c].pc = "req_count"
    /\ \E err \in Statuses, k \in Chunks :
          /\ (err # 0 => k = 0)
          /\ IF err # 0
             THEN /\ call' = [call EXCEPT ![c].err = err, ![c].pc = "finally"]
                  /\ RaiseInTry(c, Raise("ChronyDataError", TRUE, err,
                                         "Failed to request report"))
                  /\ sess' = [sess EXCEPT ![Target(c)].st = "error"]
                  /\ obs' = [obs EXCEPT ![c] =
                        StepFailed(SessionOp(@, c), "request_report_number_records", "count")]
             ELSE /\ call' = [call EXCEPT ![c].err = err, ![c].pc = "count_needs"]
                  /\ pend' = pend
                  /\ sess' = [sess EXCEPT ![Target(c)].st = "count", ![Target(c)].pending = k]
                  /\ obs' = [obs EXCEPT ![c] =
                        [SessionOp(@, c) EXCEPT !.reqCountOk = TRUE, !.needsTrue = 0,
                                             !.processed = 0]]
    /\ UNCHANGED <<outcome, world>>

\* _lib.chrony_needs_response(session[0]): true while responses are pending.
NeedsResponse(s) == s.pending > 0

\* A plausible slip: the loop gives up after MaxChunks responses, whatever
\* the session signals.
LoopGoesOn_bounded(c) == NeedsResponse(sess[Target(c)]) /\ obs[c].processed < MaxChunks

\* The condition of the while loop.
LoopGoesOn(c) == NeedsResponse(sess[Target(c)])

\* while _lib.chrony_needs_response(session[0]): ...   (phase: "count" or "rec")
chrony_needs_response(c, phase, body, after) ==
    /\ call[c].pc = phase
    /\ LET needs == NeedsResponse(sess[Target(c)]) IN
          /\ call' = [call EXCEPT ![c].pc = IF LoopGoesOn(c) THEN body ELSE after]
          /\ obs' = [obs EXCEPT ![c] =
                [SessionOp(@, c) EXCEPT !.lastNeeds = needs,
                                     !.needsTrue = IF needs THEN Counted(@) ELSE @]]
    /\ UNCHANGED <<pend, outcome, sess, world>>

\* A plausible slip: get_rtc_data without its special case, the failing status
\* raised as for the other reports.
DrainFailure_generic(o, phase, err) ==
    Raise("ChronyDataError", TRUE, err,
          IF phase = "count" THEN "Failed to process response"
                             ELSE "Failed to process record")

\* A plausible slip: the failure of the rtcdata record drain swallowed and
\* None returned, as the unit tests of get_rtc_data expect.
DrainFailure_swallowed(o, phase, err) ==
    IF o = "get_rtc_data" /\ phase = "record"
    THEN Return("None")
    ELSE DrainFailure_generic(o, phase, err)

\* A plausible slip: a failed response read reported as a lost connection.
DrainFailure_as_connection(o, phase, err) ==
    IF o = "get_rtc_data" /\ phase = "record"
    THEN RtcNotAvailable
    ELSE Raise("ChronyConnectionError", TRUE, err,
               IF phase = "count" THEN "Failed to process response"
                                  ELSE "Failed to process record")

\* A plausible slip: get_rtc_data lenient in both of its drain loops.
DrainFailure_rtc_lenient_in_both(o, phase, err) ==
    IF o = "get_rtc_data"
    THEN RtcNotAvailable
    ELSE DrainFailure_generic(o, phase, err)

\* What a non-zero chrony_process_response raises, by operation and phase.
DrainFailure(o, phase, err) ==
    IF o = "get_rtc_data" /\ phase = "record"
    THEN RtcNotAvailable
    ELSE Raise("ChronyDataError", TRUE, err,
               IF phase = "count" THEN "Failed to process response"
                                  ELSE "Failed to process record")

\* The responses still pending after one has been processed with status 0:
\* one less, or as many as before when the daemon never completes its reply.
Consumed(pending) == IF world.endless THEN pending ELSE pending - 1

\* err = _lib.chrony_process_response(session[0]); if err != 0: raise ...
chrony_process_response(c, body, phase, loop) ==
    /\ call[c].pc = body
    /\ \E err \in Statuses :
          /\ obs' = [obs EXCEPT ![c] =
                LET o == [SessionOp(@, c) EXCEPT !.processed = Counted(@)]
                IN  IF err # 0 THEN StepFailed(o, "process_response", phase) ELSE o]
          /\ IF err # 0
             THEN /\ call' = [call EXCEPT ![c].err = err, ![c].pc = "finally"]
                  /\ RaiseInTry(c, DrainFailure(call[c].op, phase, err))
                  /\ sess' = [sess EXCEPT ![Target(c)].st = "error"]
             ELSE /\ call' = [call EXCEPT ![c].err = err, ![c].pc = loop]
                  /\ pend' = pend
                  /\ sess' = [sess EXCEPT ![Target(c)].pending = Consumed(@)]
    /\ UNCHANGED <<outcome, world>>

\* Step 2: while _lib.chrony_needs_response(session[0]) after the count request
count_needs_response(c) ==
    chrony_needs_response(c, "count_needs", "count_process", "count_read")

\* A plausible slip: one request, one response; the count is read after a
\* single chrony_process_response, whatever chrony_needs_response would say.
count_process_response_once(c) ==
    chrony_process_response(c, "count_process", "count", "count_read")

\* Step 2: err = _lib.chrony_process_response(session[0]) in the count drain
count_process_response(c) ==
    chrony_process_response(c, "count_process", "count", "count_needs")

\* Step 5: while _lib.chrony_needs_response(session[0]) after the record request
record_needs_response(c) ==
    chrony_needs_response(c, "rec_needs", "rec_process", "extract")

\* A plausible slip: the fields are decoded after a single
\* chrony_process_response, whatever chrony_needs_response would say.
record_process_response_once(c) ==
    chrony_process_response(c, "rec_process", "record", "extract")

\* Step 5: err = _lib.chrony_process_response(session[0]) in the record drain
record_process_response(c) ==
    chrony_process_response(c, "rec_process", "record", "rec_needs")

\* A plausible slip: an empty tracking report treated like an empty list.
NoRecords_tracking_as_list(o) ==
    IF o = "get_rtc_data" THEN RtcNotAvailable ELSE Return("list")

\* A plausible slip: an empty list report treated like an empty tracking report.
NoRecords_list_raises(o) ==
    IF o = "get_rtc_data" THEN RtcNotAvailable
    ELSE Raise("ChronyDataError", FALSE, 0, "No tracking records available")

\* What each operation does with a record count below 1.
NoRecords(o) ==
    CASE o = "get_tracking" ->
            Raise("ChronyDataError", FALSE, 0, "No tracking records available")
      [] o \in ListOps -> Return("list")
      [] OTHER -> RtcNotAvailable

\* A plausible slip: a count other than one is taken as no usable record.
NoRecordsAvailable_unless_one(n) == n # 1

\* A plausible slip: only a negative count is taken to mean "no records".
NoRecordsAvailable_negative_only(n) == n < 0

\* if num_records < 1:
NoRecordsAvailable(n) == n < 1

\* num_records = _lib.chrony_get_report_number_records(session[0]); if num_records < 1: ...
chrony_get_report_number_records(c) ==
    /\ call[c].pc = "count_read"
    /\ \E n \in RecordCounts :
          /\ obs' = [obs EXCEPT ![c] =
                [SessionOp(@, c) EXCEPT !.countRead = TRUE,
                                     !.countReadPending = @ \cup {sess[Target(c)].pending}]]
          /\ IF NoRecordsAvailable(n)
             THEN /\ call' = [call EXCEPT ![c].num_records = n, ![c].pc = "finally"]
                  /\ pend' = [pend EXCEPT ![c] = NoRecords(call[c].op)]
             ELSE /\ call' = [call EXCEPT ![c].num_records = n, ![c].i = 0,
                                          ![c].results = <<>>, ![c].pc = "req_record"]
                  /\ pend' = pend
    /\ UNCHANGED <<outcome, sess, world>>

\* A plausible slip: every request asks for record 0.
RecordIndex_always_zero(c) == 0

\* The index the operation requests next: the loop variable of the list
\* operations, the literal 0 of the singleton ones.
RecordIndex(c) == IF call[c].op \in ListOps THEN call[c].i ELSE 0

\* err = _lib.chrony_request_record(session[0], name, index)
chrony_request_record(c) ==
    /\ call[c].pc = "req_record"
    /\ \E err \in Statuses, k \in Chunks :
          /\ (err # 0 => k = 0)
          /\ IF err # 0
             THEN /\ call' = [call EXCEPT ![c].err = err, ![c].pc = "finally"]
                  /\ RaiseInTry(c, Raise("ChronyDataError", TRUE, err,
                                         "Failed to request record"))
                  /\ sess' = [sess EXCEPT ![Target(c)].st = "error"]
                  /\ obs' = [obs EXCEPT ![c] =
                        [StepFailed(SessionOp(@, c), "request_record", "record")
                           EXCEPT !.requested = Append(@, RecordIndex(c)),
                                  !.requestedIn = @ \cup {SessTag(sess[Target(c)])},
                                  !.recReqOk = FALSE]]
             ELSE /\ call' = [call EXCEPT ![c].err = err, ![c].pc = "rec_needs"]
                  /\ pend' = pend
                  /\ sess' = [sess EXCEPT ![Target(c)].st = "record", ![Target(c)].pending = k,
                                          ![Target(c)].idx = RecordIndex(c)]
                  /\ obs' = [obs EXCEPT ![c] =
                        [SessionOp(@, c) EXCEPT !.requested = Append(@, RecordIndex(c)),
                                             !.requestedIn = @ \cup {SessTag(sess[Target(c)])},
                                             !.recReqOk = TRUE,
                                             !.needsTrue = 0, !.processed = 0]]
    /\ UNCHANGED <<outcome, world>>

\* ------------------------------------------------------ values and fields

\* A C double: finite (s its whole part and ns the billionth nearest to its
\* fraction, 0 <= ns < 10^9), infinite (s is the sign) or not a number.
Fin(n) == [cls |-> "fin", s |-> n, ns |-> 0]
Inf(sign) == [cls |-> "inf", s |-> sign, ns |-> 0]
NaN == [cls |-> "nan", s |-> 0, ns |-> 0]

\* A plausible slip: zero counted as negative.
Negative_or_zero(x) == x.cls # "nan" /\ x.s <= 0 /\ (x.s < 0 \/ x.ns = 0)

\* math.isnan(x), math.isinf(x), x < 0
isnan(x) == x.cls = "nan"
isinf(x) == x.cls = "inf"
Negative(x) == x.cls # "nan" /\ x.s < 0

\* NANOSECONDS_PER_SECOND = 1e9
NANOSECONDS_PER_SECOND == 1000000000

\* A plausible slip: the sum taken as exact, as if a double held every
\* nanosecond of every second.
timespec_to_float_exact(ts) ==
    [cls |-> "fin",
     s |-> ts.tv_sec + (ts.tv_nsec \div NANOSECONDS_PER_SECOND),
     ns |-> ts.tv_nsec % NANOSECONDS_PER_SECOND]

\* Quotient and remainder of n * 2^j by 5^9, from those of n, by doubling.
RECURSIVE ScaleFraction(_, _)
ScaleFraction(qr, j) ==
    IF j = 0 THEN qr
    ELSE ScaleFraction([q |-> 2 * qr.q + (IF 2 * qr.r >= 1953125 THEN 1 ELSE 0),
                        r |-> (2 * qr.r) % 1953125], j - 1)

\* The double nearest to sec + nsec / 10^9 for 2^23 <= sec < 2^31 and
\* 0 <= nsec < 10^9. With 2^k <= sec < 2^(k+1) the doubles from sec to sec + 1
\* are sec + q / 2^(j+9), j = 43 - k, and q is nsec * 2^j / 5^9 rounded to the
\* nearest (5^9 is odd: there are no ties, and the rounding of the quotient
\* nsec / 1e9 itself, to 53 bits, cannot change the side q falls on).
RoundedSum(sec, nsec) ==
    LET k == CHOOSE e \in 23..30 : 2^e <= sec /\ (e = 30 \/ sec < 2^(e + 1))
        j == 43 - k
        scaled == ScaleFraction([q |-> nsec \div 1953125, r |-> nsec % 1953125], j)
        q == scaled.q + (IF 2 * scaled.r > 1953125 THEN 1 ELSE 0)
        r == q % 2^j
    IN  IF q = 2^(j + 9)
        THEN [cls |-> "fin", s |-> sec + 1, ns |-> 0]
        ELSE [cls |-> "fin", s |-> sec,
              ns |-> (q \div 2^j) * 1953125 + ((r * 1953) \div 2^j) * 1000
                     + (((r * 1953) % 2^j) * 1000 + r * 125 + 2^(j - 1)) \div 2^j]

\* ts.tv_sec + ts.tv_nsec / NANOSECONDS_PER_SECOND, in double arithmetic.
\* Below 2^23 seconds the doubles are less than a nanosecond apart and the
\* nearest billionth is the exact one.
timespec_to_float(ts) ==
    LET sec == ts.tv_sec + (ts.tv_nsec \div NANOSECONDS_PER_SECOND)
        nsec == ts.tv_nsec % NANOSECONDS_PER_SECOND
    IN  IF sec >= 2^23 THEN RoundedSum(sec, nsec)
        ELSE [cls |-> "fin", s |-> sec, ns |-> nsec]

\* A char* the library hands out: a null pointer, or bytes up to a 0 byte.
NullString == [null |-> TRUE, bytes |-> <<>>]
CString(bytes) == [null |-> FALSE, bytes |-> bytes]

\* _ffi.string(result).decode("utf-8", errors="replace") on bytes without
\* multi-byte sequences: a byte above 127 decodes to U+FFFD.
DecodeUtf8(bytes) == [k \in DOMAIN bytes |-> IF bytes[k] > 127 THEN 65533 ELSE bytes[k]]

\* The record a session holds after the drain: its field table (the names, in
\* index order) and the value of each field.
chrony_get_field_index(rec, name) ==
    IF \E k \in DOMAIN rec.fields : rec.fields[k] = name
    THEN (CHOOSE k \in DOMAIN rec.fields : rec.fields[k] = name) - 1
    ELSE -1

\* chrony_get_field_float / _uinteger / _integer / _string / _timespec
\* (session, index); an index outside the table reads nothing useful.
chrony_get_field(rec, index, nothing) ==
    IF index + 1 \in DOMAIN rec.fields THEN rec.val[rec.fields[index + 1]] ELSE nothing

\* What one field decoder did: the index it resolved, whether it called the
\* typed getter, whether it raised, and the value it returned otherwise.
Decoded(kind, name, index, called, raised, value) ==
    [kind |-> kind, name |-> name, index |-> index, called |-> called,
     raised |-> raised, value |-> value]

\* A plausible slip: the index is passed on without the check.
get_float_field_unchecked(rec, name) ==
    LET index == chrony_get_field_index(rec, name)
    IN  Decoded("float", name, index, TRUE, FALSE, chrony_get_field(rec, index, Fin(0)))

\* _get_float_field(session, name)
get_float_field(rec, name) ==
    LET index == chrony_get_field_index(rec, name)
    IN  IF index < 0
        THEN Decoded("float", name, index, FALSE, TRUE, Fin(0))
        ELSE Decoded("float", name, index, TRUE, FALSE, chrony_get_field(rec, index, Fin(0)))

\* _get_uinteger_field(session, name)
get_uinteger_field(rec, name) ==
    LET index == chrony_get_field_index(rec, name)
    IN  IF index < 0
        THEN Decoded("uinteger", name, index, FALSE, TRUE, 0)
        ELSE Decoded("uinteger", name, index, TRUE, FALSE, chrony_get_field(rec, index, 0))

\* _get_integer_field(session, name)
get_integer_field(rec, name) ==
    LET index == chrony_get_field_index(rec, name)
    IN  IF index < 0
        THEN Decoded("integer", name, index, FALSE, TRUE, 0)
        ELSE Decoded("integer", name, index, TRUE, FALSE, chrony_get_field(rec, index, 0))

\* _get_string_field(session, name)
get_string_field(rec, name) ==
    LET index == chrony_get_field_index(rec, name)
        result == chrony_get_field(rec, index, NullString)
    IN  IF index < 0
        THEN Decoded("string", name, index, FALSE, TRUE, <<>>)
        ELSE Decoded("string", name, index, TRUE, FALSE,
                     IF result.null THEN <<>> ELSE DecodeUtf8(result.bytes))

\* _get_timespec_field(session, name)
get_timespec_field(rec, name) ==
    LET index == chrony_get_field_index(rec, name)
        ts == chrony_get_field(rec, index, [tv_sec |-> 0, tv_nsec |-> 0])
    IN  IF index < 0
        THEN Decoded("timespec", name, index, FALSE, TRUE, Fin(0))
        ELSE Decoded("timespec", name, index, TRUE, FALSE, timespec_to_float(ts))

\* A decoder call as the library saw it: the lookup, and the typed getter call.
FieldCall(d) ==
    [kind |-> d.kind, name |-> d.name, index |-> d.index, called |-> d.called,
     raised |-> d.raised]

\* The decoder an extractor uses for a field of the given kind.
GetField(kind, rec, name) ==
    CASE kind = "float" -> get_float_field(rec, name)
      [] kind = "uinteger" -> get_uinteger_field(rec, name)
      [] kind = "integer" -> get_integer_field(rec, name)
      [] kind = "string" -> get_string_field(rec, name)
      [] kind = "timespec" -> get_timespec_field(rec, name)

\* A Python str is the sequence of its code points. str(b) for a byte b:
DecimalDigits(b) ==
    IF b >= 100 THEN <<48 + (b \div 100), 48 + ((b \div 10) % 10), 48 + (b % 10)>>
    ELSE IF b >= 10 THEN <<48 + (b \div 10), 48 + (b % 10)>>
    ELSE <<48 + b>>

\* An unsigned 32-bit value, kept as its two 16-bit halves: the values from
\* 2^31 up are beyond the integers the checker computes with.
U32(hi, lo) == [hi |-> hi, lo |-> lo]

\* ref_id.to_bytes(4, "big")
BigEndianBytes(ref_id) ==
    <<ref_id.hi \div 256, ref_id.hi % 256, ref_id.lo \div 256, ref_id.lo % 256>>

\* bytes_val.rstrip(b"\x00"): the zero bytes at the end go, others stay.
RStripZero(bytes) ==
    LET keep == {k \in DOMAIN bytes : bytes[k] # 0}
    IN  IF keep = {} THEN <<>>
        ELSE SubSeq(bytes, 1, CHOOSE k \in keep : \A j \in keep : j <= k)

\* A plausible slip: DEL (127) counted as printable.
ref_id_to_name_del_printable(ref_id) ==
    LET bytes_val == BigEndianBytes(ref_id)
    IN  IF \A k \in DOMAIN bytes_val :
               bytes_val[k] = 0 \/ (32 <= bytes_val[k] /\ bytes_val[k] <= 127)
        THEN RStripZero(bytes_val)
        ELSE DecimalDigits(bytes_val[1]) \o <<46>> \o DecimalDigits(bytes_val[2]) \o <<46>>
             \o DecimalDigits(bytes_val[3]) \o <<46>> \o DecimalDigits(bytes_val[4])

\* _ref_id_to_name(ref_id)
ref_id_to_name(ref_id) ==
    LET bytes_val == BigEndianBytes(ref_id)
    IN  IF \A k \in DOMAIN bytes_val :
               bytes_val[k] = 0 \/ (32 <= bytes_val[k] /\ bytes_val[k] < 127)
        THEN RStripZero(bytes_val)
        ELSE DecimalDigits(bytes_val[1]) \o <<46>> \o DecimalDigits(bytes_val[2]) \o <<46>>
             \o DecimalDigits(bytes_val[3]) \o <<46>> \o DecimalDigits(bytes_val[4])

\* The values the enum classes have members for (0=normal .. 3=unsync;
\* 0=selected .. 5=unselected; 0=client, 1=peer, 2=reference clock).
LeapStatus == 0..3
SourceState == 0..5
SourceMode == 0..2

\* One field read of an extractor: the decoder, libchrony's field name, the key.
Read(kind, name, key) == [kind |-> kind, name |-> name, key |-> key]

\* A plausible slip: the source extractor reads the reference ID whether or
\* not it has an address.
ReadsBeforeEnums_always_ref_id(o, rec) ==
    CASE o = "get_tracking" ->
            <<Read("uinteger", "reference ID", "reference_id"),
              Read("uinteger", "leap status", "leap_status")>>
      [] o = "get_sources" ->
            <<Read("string", "address", "address"),
              Read("uinteger", "reference ID", "ref_id"),
              Read("uinteger", "state", "state"),
              Read("uinteger", "mode", "mode")>>
      [] OTHER -> <<>>

\* The reads an extractor makes before its enum conversions, in order; the
\* source extractor reads the reference ID only if the address came back empty.
ReadsBeforeEnums(o, rec) ==
    CASE o = "get_tracking" ->
            <<Read("uinteger", "reference ID", "reference_id"),
              Read("uinteger", "leap status", "leap_status")>>
      [] o = "get_sources" ->
            <<Read("string", "address", "address")>>
            \o (IF ~get_string_field(rec, "address").raised
                   /\ get_string_field(rec, "address").value = <<>>
                THEN <<Read("uinteger", "reference ID", "ref_id")>> ELSE <<>>)
            \o <<Read("uinteger", "state", "state"),
                 Read("uinteger", "mode", "mode")>>
      [] OTHER -> <<>>

\* A plausible slip: an unknown mode is let through.
EnumConversions_mode_unchecked(o) ==
    CASE o = "get_tracking" -> <<[key |-> "leap_status", enum |-> LeapStatus]>>
      [] o = "get_sources" -> <<[key |-> "state", enum |-> SourceState]>>
      [] OTHER -> <<>>

\* The enum conversions of an extractor, in order: key, enum, name in the message.
EnumConversions(o) ==
    CASE o = "get_tracking" -> <<[key |-> "leap_status", enum |-> LeapStatus]>>
      [] o = "get_sources" -> <<[key |-> "state", enum |-> SourceState],
                                [key |-> "mode", enum |-> SourceMode]>>
      [] OTHER -> <<>>

\* The reads of the dict literal the extractor returns, in evaluation order.
ReadsOfDict(o) ==
    CASE o = "get_tracking" ->
            <<Read("string", "address", "reference_ip"),
              Read("uinteger", "stratum", "stratum"),
              Read("timespec", "reference time", "ref_time"),
              Read("float", "current correction", "offset"),
              Read("float", "last offset", "last_offset"),
              Read("float", "RMS offset", "rms_offset"),
              Read("float", "frequency offset", "frequency"),
              Read("float", "residual frequency", "residual_freq"),
              Read("float", "skew", "skew"),
              Read("float", "root delay", "root_delay"),
              Read("float", "root dispersion", "root_dispersion"),
              Read("float", "last update interval", "update_interval")>>
      [] o = "get_sources" ->
            <<Read("integer", "poll", "poll"),
              Read("uinteger", "stratum", "stratum"),
              Read("uinteger", "flags", "flags"),
              Read("uinteger", "reachability", "reachability"),
              Read("uinteger", "last sample ago", "last_sample_ago"),
              Read("float", "original last sample offset", "orig_latest_meas"),
              Read("float", "adjusted last sample offset", "latest_meas"),
              Read("float", "last sample error", "latest_meas_err")>>
      [] o = "get_source_stats" ->
            <<Read("uinteger", "reference ID", "reference_id"),
              Read("string", "address", "address"),
              Read("uinteger", "samples", "samples"),
              Read("uinteger", "runs", "runs"),
              Read("uinteger", "span", "span"),
              Read("float", "standard deviation", "std_dev"),
              Read("float", "residual frequency", "resid_freq"),
              Read("float", "skew", "skew"),
              Read("float", "offset", "offset"),
              Read("float", "offset error", "offset_err")>>
      [] o = "get_rtc_data" ->
            <<Read("timespec", "reference time", "ref_time"),
              Read("uinteger", "samples", "samples"),
              Read("uinteger", "runs", "runs"),
              Read("uinteger", "span", "span"),
              Read("float", "offset", "offset"),
              Read("float", "frequency offset", "freq_offset")>>

\* The decoder calls a sequence of reads makes: it ends with the first that raises.
Decode(reads, rec) ==
    LET all == [k \in DOMAIN reads |-> GetField(reads[k].kind, rec, reads[k].name)]
        bad == {k \in DOMAIN reads : all[k].raised}
    IN  SubSeq(all, 1, IF bad = {} THEN Len(reads) ELSE Min(bad))

\* A decoder of the sequence raised.
DecodeRaised(done) == done # <<>> /\ done[Len(done)].raised

\* The values read, by key.
ValuesByKey(reads, done) ==
    [key \in {reads[k].key : k \in DOMAIN reads} |->
        done[CHOOSE k \in DOMAIN reads : reads[k].key = key].value]

\* raise ChronyDataError(f"Field '{name}' not found (libchrony version mismatch?)")
FieldNotFound(name) ==
    RaiseNaming("ChronyDataError", FALSE, 0,
                "Field '{}' not found (libchrony version mismatch?)", <<name>>)

\* raise ChronyDataError(f"Unknown leap_status value {leap_status_int}. ...")
UnknownEnumValue(key) ==
    RaiseNaming("ChronyDataError", FALSE, 0,
                "Unknown {} value {}. This may indicate a newer chrony version - please update pychrony.",
                <<key>>)

\* The dict the extractor returns, from the values read.
ExtractedDict(o, v) ==
    CASE o = "get_tracking" ->
            [reference_id_name |-> ref_id_to_name(v["reference_id"])] @@ v
      [] o = "get_sources" ->
            [key \in DOMAIN v \ {"ref_id"} |->
                IF key = "address" /\ v["address"] = <<>>
                THEN ref_id_to_name(v["ref_id"]) ELSE v[key]]
      [] OTHER -> v

\* _extract_tracking_fields / _get_source_from_record /
\* _get_sourcestats_from_record / _get_rtc_from_record (session): the
\* exception it raises or the dict it returns, and the decoder calls it made.
Extract(o, rec) ==
    LET before == ReadsBeforeEnums(o, rec)
        a == Decode(before, rec)
        va == ValuesByKey(before, a)
        conv == EnumConversions(o)
        unknown == {k \in DOMAIN conv : va[conv[k].key] \notin conv[k].enum}
        dict == ReadsOfDict(o)
        b == Decode(dict, rec)
    IN  IF DecodeRaised(a)
        THEN [exc |-> FieldNotFound(a[Len(a)].name), data |-> <<>>, calls |-> a]
        ELSE IF unknown # {}
        THEN [exc |-> UnknownEnumValue(conv[Min(unknown)].key), data |-> <<>>, calls |-> a]
        ELSE IF DecodeRaised(b)
        THEN [exc |-> FieldNotFound(b[Len(b)].name), data |-> <<>>, calls |-> a \o b]
        ELSE [exc |-> NoExc, data |-> ExtractedDict(o, va @@ ValuesByKey(dict, b)),
              calls |-> a \o b]

\* ---------------------------------------------------------------- validators

\* One check of a validator: whether it is violated, and what it raises then.
Check(bad, exc) == [bad |-> bad, exc |-> exc]

\* The checks run in order and the first violated one raises.
FirstError(checks) ==
    LET bad == {k \in DOMAIN checks : checks[k].bad}
    IN  IF bad = {} THEN NoExc ELSE checks[Min(bad)].exc

\* raise ChronyDataError(f"Invalid {field_name}: {value}")
Invalid(field_name) ==
    RaiseNaming("ChronyDataError", FALSE, 0, "Invalid {}: {}", <<field_name>>)

\* raise ChronyDataError(f"{field_name} must be non-negative: {value}")
MustBeNonNegative(field_name) ==
    RaiseNaming("ChronyDataError", FALSE, 0, "{} must be non-negative: {}", <<field_name>>)

\* A plausible slip: only NaN is looked for.
validate_finite_float_nan_only(value, field_name) ==
    Check(isnan(value), Invalid(field_name))

\* _validate_finite_float(value, field_name)
validate_finite_float(value, field_name) ==
    Check(isnan(value) \/ isinf(value), Invalid(field_name))

\* A plausible slip: the upper bound taken as exclusive.
validate_bounded_int_exclusive(value, field_name, min_val, max_val) ==
    Check(~(min_val <= value /\ value < max_val), Invalid(field_name))

\* _validate_bounded_int(value, field_name, min_val, max_val)
validate_bounded_int(value, field_name, min_val, max_val) ==
    Check(~(min_val <= value /\ value <= max_val), Invalid(field_name))

\* _validate_non_negative_int(value, field_name)
validate_non_negative_int(value, field_name) ==
    Check(value < 0, MustBeNonNegative(field_name))

\* for field in fields: finite, in the order of the list
FiniteChecks(data, fields) ==
    [k \in DOMAIN fields |-> validate_finite_float(data[fields[k]], fields[k])]

\* if data[field] < 0: raise ..., in the order of the list
SignChecks(data, fields) ==
    [k \in DOMAIN fields |-> Check(Negative(data[fields[k]]), MustBeNonNegative(fields[k]))]

\* A plausible slip: the sign checks come before the finiteness checks.
validate_tracking_sign_first(data) ==
    FirstError(
        <<Check(~(0 <= data["stratum"] /\ data["stratum"] <= 15), Invalid("stratum"))>>
        \o SignChecks(data, <<"ref_time", "rms_offset", "skew", "root_delay",
                              "root_dispersion", "update_interval">>)
        \o FiniteChecks(data, <<"ref_time", "offset", "last_offset", "rms_offset",
                                "frequency", "residual_freq", "skew", "root_delay",
                                "root_dispersion", "update_interval">>))

\* A plausible slip: the stratum bound is left out.
validate_tracking_without_stratum(data) ==
    FirstError(
        FiniteChecks(data, <<"ref_time", "offset", "last_offset", "rms_offset",
                             "frequency", "residual_freq", "skew", "root_delay",
                             "root_dispersion", "update_interval">>)
        \o SignChecks(data, <<"ref_time", "rms_offset", "skew", "root_delay",
                              "root_dispersion", "update_interval">>))

\* _validate_tracking(data)
validate_tracking(data) ==
    FirstError(
        <<Check(~(0 <= data["stratum"] /\ data["stratum"] <= 15), Invalid("stratum"))>>
        \o FiniteChecks(data, <<"ref_time", "offset", "last_offset", "rms_offset",
                                "frequency", "residual_freq", "skew", "root_delay",
                                "root_dispersion", "update_interval">>)
        \o SignChecks(data, <<"ref_time", "rms_offset", "skew", "root_delay",
                              "root_dispersion", "update_interval">>))

\* A plausible slip: the reachability bound is left out.
validate_source_without_reachability(data) ==
    FirstError(
        <<validate_bounded_int(data["stratum"], "stratum", 0, 15),
          validate_non_negative_int(data["last_sample_ago"], "last_sample_ago")>>
        \o FiniteChecks(data, <<"orig_latest_meas", "latest_meas", "latest_meas_err">>)
        \o SignChecks(data, <<"latest_meas_err">>))

\* _validate_source(data)
validate_source(data) ==
    FirstError(
        <<validate_bounded_int(data["stratum"], "stratum", 0, 15),
          validate_bounded_int(data["reachability"], "reachability", 0, 255),
          validate_non_negative_int(data["last_sample_ago"], "last_sample_ago")>>
        \o FiniteChecks(data, <<"orig_latest_meas", "latest_meas", "latest_meas_err">>)
        \o SignChecks(data, <<"latest_meas_err">>))

\* _validate_sourcestats(data)
validate_sourcestats(data) ==
    FirstError(
        <<validate_non_negative_int(data["samples"], "samples"),
          validate_non_negative_int(data["runs"], "runs"),
          validate_non_negative_int(data["span"], "span")>>
        \o FiniteChecks(data, <<"std_dev", "resid_freq", "skew", "offset", "offset_err">>)
        \o SignChecks(data, <<"std_dev", "skew", "offset_err">>))

\* _validate_rtc(data)
validate_rtc(data) ==
    FirstError(
        <<validate_non_negative_int(data["samples"], "samples"),
          validate_non_negative_int(data["runs"], "runs"),
          validate_non_negative_int(data["span"], "span")>>
        \o FiniteChecks(data, <<"ref_time", "offset", "freq_offset">>)
        \o SignChecks(data, <<"ref_time">>))

\* TrackingStatus.is_synchronized(self)
is_synchronized(self) ==
    self["reference_id"] # U32(0, 0) /\ self["stratum"] < 16

\* The validator each operation applies to the extracted dict.
Validate(o, data) ==
    CASE o = "get_tracking" -> validate_tracking(data)
      [] o = "get_sources" -> validate_source(data)
      [] o = "get_source_stats" -> validate_sourcestats(data)
      [] o = "get_rtc_data" -> validate_rtc(data)

\* ------------------------------------------------- what the daemon answers

\* "1" and "GPS" as C strings, 127.0.0.1 and "GPS\0" as reference IDs.
AddressOne == CString(<<49>>)
RefIdLoopback == U32(32512, 1)
RefIdGPS == U32(18256, 21248)

\* A well-formed record of each report, fields in the order the extractor
\* reads them.
BaseRecord(report) ==
    CASE report = "tracking" ->
            [fields |-> <<"reference ID", "leap status", "address", "stratum",
                          "reference time", "current correction", "last offset",
                          "RMS offset", "frequency offset", "residual frequency",
                          "skew", "root delay", "root dispersion",
                          "last update interval">>,
             val |-> ("reference ID" :> RefIdLoopback) @@ ("leap status" :> 0)
                     @@ ("address" :> AddressOne) @@ ("stratum" :> 2)
                     @@ ("reference time" :> [tv_sec |-> 1, tv_nsec |-> 500000000])
                     @@ ("current correction" :> Fin(-1)) @@ ("last offset" :> Fin(0))
                     @@ ("RMS offset" :> Fin(0)) @@ ("frequency offset" :> Fin(-1))
                     @@ ("residual frequency" :> Fin(0)) @@ ("skew" :> Fin(0))
                     @@ ("root delay" :> Fin(0)) @@ ("root dispersion" :> Fin(0))
                     @@ ("last update interval" :> Fin(64))]
      [] report = "sources" ->
            [fields |-> <<"address", "reference ID", "state", "mode", "poll",
                          "stratum", "flags", "reachability", "last sample ago",
                          "original last sample offset",
                          "adjusted last sample offset", "last sample error">>,
             val |-> ("address" :> AddressOne) @@ ("reference ID" :> RefIdGPS)
                     @@ ("state" :> 0) @@ ("mode" :> 0) @@ ("poll" :> -1)
                     @@ ("stratum" :> 2) @@ ("flags" :> 0) @@ ("reachability" :> 255)
                     @@ ("last sample ago" :> 0)
                     @@ ("original last sample offset" :> Fin(-1))
                     @@ ("adjusted last sample offset" :> Fin(0))
                     @@ ("last sample error" :> Fin(0))]
      [] report = "sourcestats" ->
            [fields |-> <<"reference ID", "address", "samples", "runs", "span",
                          "standard deviation", "residual frequency", "skew",
                          "offset", "offset error">>,
             val |-> ("reference ID" :> RefIdLoopback) @@ ("address" :> AddressOne)
                     @@ ("samples" :> 4) @@ ("runs" :> 1) @@ ("span" :> 0)
                     @@ ("standard deviation" :> Fin(0))
                     @@ ("residual frequency" :> Fin(-1)) @@ ("skew" :> Fin(0))
                     @@ ("offset" :> Fin(-1)) @@ ("offset error" :> Fin(0))]
      [] report = "rtcdata" ->
            [fields |-> <<"reference time", "samples", "runs", "span", "offset",
                          "frequency offset">>,
             val |-> ("reference time" :> [tv_sec |-> 1, tv_nsec |-> 0])
                     @@ ("samples" :> 0) @@ ("runs" :> 0) @@ ("span" :> 0)
                     @@ ("offset" :> Fin(-1)) @@ ("frequency offset" :> Fin(-1))]

\* A field with another value.
Dev(name, value) == [name |-> name, value |-> value]

\* Other values the daemon can send in one field of a record: at and beyond
\* the bounds of the integers, unknown enum values, floats that are negative,
\* infinite or not a number, a null or empty address.
Deviations(report) ==
    CASE report = "tracking" ->
            <<Dev("stratum", 0), Dev("stratum", 15), Dev("stratum", 16),
             Dev("leap status", 3), Dev("leap status", 4),
             Dev("reference ID", RefIdGPS), Dev("reference ID", U32(0, 0)),
             Dev("address", NullString),
             Dev("reference time", [tv_sec |-> -1, tv_nsec |-> 0]),
             Dev("current correction", NaN), Dev("last offset", Inf(1)),
             Dev("frequency offset", Inf(-1)), Dev("residual frequency", NaN),
             Dev("RMS offset", Fin(-1)), Dev("RMS offset", NaN),
             Dev("skew", Fin(-1)), Dev("skew", Inf(-1)),
             Dev("root delay", Fin(-1)), Dev("root delay", Inf(1)),
             Dev("root dispersion", Fin(-1)), Dev("root dispersion", NaN),
             Dev("last update interval", Fin(-1)),
             Dev("last update interval", Inf(-1))>>
      [] report = "sources" ->
            <<Dev("stratum", 16), Dev("reachability", 256),
              Dev("state", 6), Dev("mode", 3), Dev("address", NullString),
             Dev("original last sample offset", NaN),
             Dev("adjusted last sample offset", Inf(1)),
             Dev("last sample error", Fin(-1)), Dev("last sample error", NaN),
             Dev("last sample error", Inf(-1))>>
      [] report = "sourcestats" ->
            <<Dev("standard deviation", Fin(-1)), Dev("standard deviation", NaN),
             Dev("skew", Fin(-1)), Dev("skew", Inf(1)),
             Dev("offset error", Fin(-1)), Dev("offset error", Inf(-1)),
             Dev("residual frequency", NaN), Dev("offset", Inf(1)),
             Dev("samples", 0)>>
      [] report = "rtcdata" ->
            <<Dev("reference time", [tv_sec |-> -1, tv_nsec |-> 999999999]),
              Dev("samples", 4), Dev("offset", NaN), Dev("frequency offset", Inf(1))>>

\* The record without one field, as a library of another version has it.
Without(rec, name) ==
    [rec EXCEPT !.fields = SelectSeq(@, LAMBDA f : f # name)]

\* The records a session can hold once a record request has been answered.
DaemonRecords(report) ==
    LET base == BaseRecord(report)
    IN  {base}
        \cup {[base EXCEPT !.val[Deviations(report)[k].name] = Deviations(report)[k].value] :
                 k \in DOMAIN Deviations(report)}
        \cup {Without(base, base.fields[k]) : k \in DOMAIN base.fields}

\* The fields of a record that the extractors convert to enums, as sent.
EnumFieldsOf(rec) ==
    {[name |-> rec.fields[k], value |-> rec.val[rec.fields[k]]] :
        k \in {j \in DOMAIN rec.fields : rec.fields[j] \in {"leap status", "state", "mode"}}}

\* The records the daemon serves; a well-formed one and one that lacks its
\* last field where two calls run side by side; these two and one with
\* another value in a field where a sample of the records is enough.
RecordsServed(report) ==
    IF world.narrow \/ world.sampled
    THEN {BaseRecord(report),
          Without(BaseRecord(report), BaseRecord(report).fields[Len(BaseRecord(report).fields)])}
         \cup (IF world.sampled
               THEN {[BaseRecord(report) EXCEPT !.val[Deviations(report)[1].name] =
                                                   Deviations(report)[1].value]}
               ELSE {})
    ELSE DaemonRecords(report)

\* data = _extract_tracking_fields / _get_source_from_record /
\*        _get_sourcestats_from_record / _get_rtc_from_record (session[0])
extract_fields(c) ==
    /\ call[c].pc = "extract"
    /\ \E rec \in RecordsServed(ReportName(call[c].op)) :
       \E got \in {Extract(call[c].op, rec)} :
          /\ obs' = [obs EXCEPT ![c] =
                [SessionOp(@, c) EXCEPT !.decoded = Append(@, sess[Target(c)].idx),
                                     !.decodedIn = @ \cup {SessTag(sess[Target(c)])},
                                     !.fieldCalls = @ \cup {FieldCall(got.calls[k]) :
                                                              k \in DOMAIN got.calls},
                                     !.enums = @ \cup EnumFieldsOf(rec),
                                     !.extracted = IF got.exc = NoExc
                                                   THEN Append(@, got.data) ELSE @]]
          /\ IF got.exc = NoExc
             THEN /\ call' = [call EXCEPT ![c].data = got.data, ![c].pc = "validate"]
                  /\ pend' = pend
             ELSE /\ call' = [call EXCEPT ![c].pc = "finally"]
                  /\ RaiseInTry(c, got.exc)
    /\ UNCHANGED <<outcome, sess, world>>

\* The value a singleton operation returns.
RecordType(o) == IF o = "get_tracking" THEN "TrackingStatus" ELSE "RTCData"

\* A plausible slip: a list operation skips a record that fails validation
\* and goes on with the next index.
validate_and_build_skip_invalid(c) ==
    /\ call[c].pc = "validate"
    /\ LET ok == Validate(call[c].op, call[c].data) = NoExc
           more == call[c].i + 1 < call[c].num_records
       IN  IF call[c].op \in ListOps
           THEN /\ call' = [call EXCEPT ![c].results = IF ok THEN Append(@, call[c].data) ELSE @,
                                        ![c].i = IF more THEN @ + 1 ELSE @,
                                        ![c].pc = IF more THEN "req_record" ELSE "finally"]
                /\ pend' = IF more THEN pend ELSE [pend EXCEPT ![c] = Return("list")]
           ELSE /\ call' = [call EXCEPT ![c].pc = "finally"]
                /\ IF ok THEN pend' = [pend EXCEPT ![c] = Return(RecordType(call[c].op))]
                         ELSE RaiseInTry(c, Validate(call[c].op, call[c].data))
    /\ UNCHANGED <<outcome, sess, world, obs>>

\* _validate_*(data); then return the record, or append it and go on with the loop
validate_and_build(c) ==
    /\ call[c].pc = "validate"
    /\ IF Validate(call[c].op, call[c].data) # NoExc
       THEN /\ call' = [call EXCEPT ![c].pc = "finally"]
            /\ RaiseInTry(c, Validate(call[c].op, call[c].data))
       ELSE IF call[c].op \in ListOps
       THEN LET more == call[c].i + 1 < call[c].num_records IN
            /\ call' = [call EXCEPT ![c].results = Append(@, call[c].data),
                                    ![c].i = IF more THEN @ + 1 ELSE @,
                                    ![c].pc = IF more THEN "req_record" ELSE "finally"]
            /\ pend' = IF more THEN pend ELSE [pend EXCEPT ![c] = Return("list")]
       ELSE /\ call' = [call EXCEPT ![c].pc = "finally"]
            /\ pend' = [pend EXCEPT ![c] = Return(RecordType(call[c].op))]
    /\ UNCHANGED <<outcome, sess, world, obs>>

\* A plausible slip: the cleanup calls chrony_deinit_session without looking
\* at the handle.
NeedsDeinit_always(c) == TRUE

\* A plausible slip: the cleanup is left out.
NeedsDeinit_never(c) == FALSE

\* A plausible slip: the session is released at the end of the success path
\* only, as if the cleanup were not in a finally clause.
NeedsDeinit_on_return_only(c) == call[c].session # NULL /\ pend[c].kind = "return"

\* if session[0] != _ffi.NULL:
NeedsDeinit(c) == call[c].session # NULL

\* finally: if session[0] != _ffi.NULL: _lib.chrony_deinit_session(session[0])
finally_block(c) ==
    /\ call[c].pc = "finally"
    /\ call' = [call EXCEPT ![c].pc = "exit"]
    /\ IF NeedsDeinit(c)
       THEN /\ obs' = [obs EXCEPT ![c].deinit = Append(@, SessionArg(c)),
                                   ![c].deinitOf = Append(@, Target(c))]
            /\ sess' = [sess EXCEPT ![Target(c)].st = "deinit"]
            /\ world' = [world EXCEPT
                  !.liveSessions = @ \ {SessionArg(c)},
                  !.openFds = IF world.deinitCloses THEN @ \ {call[c].fd} ELSE @]
       ELSE UNCHANGED <<obs, sess, world>>
    /\ UNCHANGED <<pend, outcome>>

\* The return value or the exception leaves the function.
propagate(c) ==
    /\ call[c].pc = "exit"
    /\ call' = [call EXCEPT ![c].pc = "done"]
    /\ outcome' = [outcome EXCEPT ![c] = pend[c]]
    /\ UNCHANGED <<pend, sess, world, obs>>

Next ==
    \E c \in Calls :
        \/ check_library_available(c) /\ UNCHANGED fn
        \/ find_socket_path(c) /\ UNCHANGED fn
        \/ chrony_open_socket(c) /\ UNCHANGED fn
        \/ chrony_init_session(c) /\ UNCHANGED fn
        \/ chrony_request_report_number_records(c) /\ UNCHANGED fn
        \/ count_needs_response(c) /\ UNCHANGED fn
        \/ count_process_response(c) /\ UNCHANGED fn
        \/ chrony_get_report_number_records(c) /\ UNCHANGED fn
        \/ chrony_request_record(c) /\ UNCHANGED fn
        \/ record_needs_response(c) /\ UNCHANGED fn
        \/ record_process_response(c) /\ UNCHANGED fn
        \/ extract_fields(c) /\ UNCHANGED fn
        \/ validate_and_build(c) /\ UNCHANGED fn
        \/ finally_block(c) /\ UNCHANGED fn
        \/ propagate(c) /\ UNCHANGED fn

Spec == Init /\ [][Next]_vars

\* Two calls side by side, their steps interleaved in any order, each on the
\* explicit socket path: a get_tracking and any of the four operations.
InitTwo ==
    /\ world = [available |-> TRUE, deinitCloses |-> TRUE,
                fs |-> [p \in Paths |-> IF p = CustomPath THEN "ok" ELSE "absent"],
                openFds |-> {}, liveSessions |-> {}, endless |-> FALSE,
                lastHandle |-> NULL, narrow |-> TRUE, sampled |-> FALSE]
    /\ \E op \in Ops :
          call = [c \in Calls |->
                    [IdleCall EXCEPT !.op = IF c = 1 THEN "get_tracking" ELSE op,
                                     !.pc = "start", !.socket_path = CustomPath]]
    /\ pend = [c \in Calls |-> NoExc]
    /\ outcome = [c \in Calls |-> NoExc]
    /\ sess = [c \in Calls |-> NoSess]
    /\ obs = [c \in Calls |-> NoObs]
    /\ fn = NoFn

SpecTwo == InitTwo /\ [][Next]_vars

\* The steps of the two drain loops.
DrainStep(c) ==
    /\ \/ count_needs_response(c)
       \/ count_process_response(c)
       \/ record_needs_response(c)
       \/ record_process_response(c)
    /\ UNCHANGED fn

\* One call on an explicit, accessible socket path, to a daemon that
\* completes its replies or to one that never does; the interpreter does not
\* stop in the middle of a drain loop.
InitDrain ==
    /\ \E endless \in BOOLEAN :
          world = [available |-> TRUE, deinitCloses |-> TRUE,
                   fs |-> [p \in Paths |-> IF p = CustomPath THEN "ok" ELSE "absent"],
                   openFds |-> {}, liveSessions |-> {}, endless |-> endless,
                   lastHandle |-> NULL, narrow |-> FALSE, sampled |-> FALSE]
    /\ \E op \in Ops :
          call = [c \in Calls |->
                    IF c = 1
                    THEN [IdleCall EXCEPT !.op = op, !.pc = "start",
                                          !.socket_path = CustomPath]
                    ELSE IdleCall]
    /\ pend = [c \in Calls |-> NoExc]
    /\ outcome = [c \in Calls |-> NoExc]
    /\ sess = [c \in Calls |-> NoSess]
    /\ obs = [c \in Calls |-> NoObs]
    /\ fn = NoFn

SpecDrain == InitDrain /\ [][Next]_vars /\ WF_vars(\E c \in Calls : DrainStep(c))

\* Any step of a call: the interpreter goes on with a call until it has
\* returned or raised.
CallStep(c) ==
    /\ \/ check_library_available(c)
       \/ find_socket_path(c)
       \/ chrony_open_socket(c)
       \/ chrony_init_session(c)
       \/ chrony_request_report_number_records(c)
       \/ count_needs_response(c)
       \/ count_process_response(c)
       \/ chrony_get_report_number_records(c)
       \/ chrony_request_record(c)
       \/ record_needs_response(c)
       \/ record_process_response(c)
       \/ extract_fields(c)
       \/ validate_and_build(c)
       \/ finally_block(c)
       \/ propagate(c)
    /\ UNCHANGED fn

\* One call on an explicit, accessible socket path, to a daemon that
\* completes its replies or to one that never does, and that serves a sample
\* of the records.
InitLive ==
    /\ \E endless \in BOOLEAN :
          world = [available |-> TRUE, deinitCloses |-> TRUE,
                   fs |-> [p \in Paths |-> IF p = CustomPath THEN "ok" ELSE "absent"],
                   openFds |-> {}, liveSessions |-> {}, endless |-> endless,
                   lastHandle |-> NULL, narrow |-> FALSE, sampled |-> TRUE]
    /\ \E op \in Ops :
          call = [c \in Calls |->
                    IF c = 1
                    THEN [IdleCall EXCEPT !.op = op, !.pc = "start",
                                          !.socket_path = CustomPath]
                    ELSE IdleCall]
    /\ pend = [c \in Calls |-> NoExc]
    /\ outcome = [c \in Calls |-> NoExc]
    /\ sess = [c \in Calls |-> NoSess]
    /\ obs = [c \in Calls |-> NoObs]
    /\ fn = NoFn

\* The interpreter runs a call to its end: it stops at no step.
SpecLive == InitLive /\ [][Next]_vars /\ WF_vars(\E c \in Calls : CallStep(c))

\* ------------------------------------- the helper functions on their own

\* Most fields of a dict that differ from the well-formed one.
MaxDeviations == 2

\* The dict an extractor returns for the well-formed record of its report.
BaseDict(o) == Extract(o, BaseRecord(ReportName(o))).data

\* The integer and the float fields a validator looks at.
IntFields(o) ==
    CASE o = "get_tracking" -> {"stratum"}
      [] o = "get_sources" -> {"stratum", "reachability", "last_sample_ago"}
      [] OTHER -> {"samples", "runs", "span"}

FloatFields(o) ==
    CASE o = "get_tracking" ->
            {"ref_time", "offset", "last_offset", "rms_offset", "frequency",
             "residual_freq", "skew", "root_delay", "root_dispersion",
             "update_interval"}
      [] o = "get_sources" -> {"orig_latest_meas", "latest_meas", "latest_meas_err"}
      [] o = "get_source_stats" -> {"std_dev", "resid_freq", "skew", "offset", "offset_err"}
      [] o = "get_rtc_data" -> {"ref_time", "offset", "freq_offset"}

\* Other values of a field: around the bounds of the integers; negative, zero,
\* not a number and the two infinities for the floats.
AltValues(o, field) ==
    IF field \in FloatFields(o) THEN <<Fin(-1), Fin(0), NaN, Inf(1), Inf(-1)>>
    ELSE IF field = "stratum" THEN <<-1, 0, 15, 16>>
    ELSE IF field = "reachability" THEN <<-1, 0, 255, 256>>
    ELSE <<-1, 0, 1>>

\* The dicts a validator is called with: the well-formed one with up to
\* MaxDeviations fields changed.
ValidatorInputs(o) ==
    LET fields == IntFields(o) \cup FloatFields(o)
        base == BaseDict(o)
        alt == [field \in fields |-> AltValues(o, field)]
        changes == UNION {[S -> 1..5] : S \in {T \in SUBSET fields :
                                                  Cardinality(T) <= MaxDeviations}}
    IN  {[key \in DOMAIN base |->
             IF key \in DOMAIN ch THEN alt[key][ch[key]] ELSE base[key]] :
         ch \in {x \in changes : \A key \in DOMAIN x : x[key] <= Len(alt[key])}}

\* A plausible slip: the validator repairs what it can, clamping the stratum.
ValidatorRun_clamping(o, data) ==
    [exc |-> Validate(o, data),
     data |-> IF "stratum" \in DOMAIN data /\ data["stratum"] > 15
              THEN [data EXCEPT !["stratum"] = 15] ELSE data]

\* _validate_*(data): what it raises, and the dict as the call leaves it (the
\* validators only read it).
ValidatorRun(o, data) == [exc |-> Validate(o, data), data |-> data]

\* _validate_*(data); _validate_*(data)
call_validator(o) ==
    /\ fn = NoFn
    /\ \E data \in ValidatorInputs(o) :
          LET first == ValidatorRun(o, data)
              second == ValidatorRun(o, first.data)
          IN  fn' = [f |-> "validate", o |-> o, data |-> data, exc |-> first.exc,
                     after |-> second.data, again |-> second.exc]

\* No query call is running.
\* The reference IDs tried: every combination of bytes around the edges of
\* the printable range, and 0x4C4F434C ("LOCL"), 0xC0A80101 (192.168.1.1),
\* 0x47005053 ("G", a zero byte, "PS").
RefIdBytes == {0, 1, 31, 32, 71, 126, 127, 255}

RefIdInputs ==
    {U32(256 * b[1] + b[2], 256 * b[3] + b[4]) : b \in [1..4 -> RefIdBytes]}
    \cup {RefIdLoopback, RefIdGPS, U32(19535, 17228), U32(49320, 257),
          U32(18176, 20563)}

\* _ref_id_to_name called on a reference ID.
call_ref_id_to_name ==
    /\ fn = NoFn
    /\ \E ref_id \in RefIdInputs :
           fn' = [f |-> "ref_id_to_name", ref_id |-> ref_id,
                  result |-> ref_id_to_name(ref_id)]

\* The timespecs tried: seconds below and above 2^23 and 2^24, nanoseconds
\* at both ends of their range.
TimespecInputs ==
    [tv_sec : {-1, 0, 1, 100, 2^23, 2^24 - 1, 2^24, 1705320000, 2^30 + (2^30 - 2)},
     tv_nsec : {0, 1, 123456789, 500000000, 999999998, 999999999}]

\* _timespec_to_float called on a timespec.
call_timespec_to_float ==
    /\ fn = NoFn
    /\ \E ts \in TimespecInputs :
           fn' = [f |-> "timespec_to_float", ts |-> ts, result |-> timespec_to_float(ts)]

\* The records the extractors are tried on: those the daemon serves, and
\* source records whose address is there, empty or null, with and without
\* the reference ID field.
ExtractorInputs(o) ==
    DaemonRecords(ReportName(o))
    \cup (IF o = "get_sources"
          THEN LET base == BaseRecord("sources")
                   with == {[base EXCEPT !.val["address"] = a, !.val["reference ID"] = r] :
                               a \in {AddressOne, CString(<<>>), NullString},
                               r \in {RefIdGPS, RefIdLoopback}}
               IN  with \cup {Without(rec, "reference ID") : rec \in with}
          ELSE {})

\* An extractor called on a session that holds a record.
call_extract(o) ==
    /\ fn = NoFn
    /\ \E rec \in ExtractorInputs(o) :
           LET got == Extract(o, rec)
           IN  fn' = [f |-> "extract", o |-> o, rec |-> rec, exc |-> got.exc,
                      data |-> got.data,
                      calls |-> [k \in DOMAIN got.calls |-> FieldCall(got.calls[k])]]

InitFn ==
    /\ world = [available |-> TRUE, deinitCloses |-> TRUE,
                fs |-> [p \in Paths |-> "absent"], openFds |-> {}, liveSessions |-> {},
                endless |-> FALSE,
                   lastHandle |-> NULL, narrow |-> FALSE, sampled |-> FALSE]
    /\ call = [c \in Calls |-> IdleCall]
    /\ pend = [c \in Calls |-> NoExc]
    /\ outcome = [c \in Calls |-> NoExc]
    /\ sess = [c \in Calls |-> NoSess]
    /\ obs = [c \in Calls |-> NoObs]
    /\ fn = NoFn

NextFn ==
    \/ \E o \in Ops : call_extract(o) /\ UNCHANGED callVars
    \/ call_timespec_to_float /\ UNCHANGED callVars
    \/ call_ref_id_to_name /\ UNCHANGED callVars
    \/ \E o \in Ops : call_validator(o) /\ UNCHANGED callVars

SpecFn == InitFn /\ [][NextFn]_vars

\* ------------------------------------------------------------------ claims

\* The caller has the call's result or its exception.
Ended(c) == call[c].pc = "done"

\* The call is leaving the function, or has left it.
Leaving(c) == call[c].pc \in {"exit", "done"}

\* C1: once chrony_init_session has stored a session handle, chrony_deinit_session
\* is called on that handle exactly once, never more, and it has been called by
\* the time the call leaves with its result or its exception, whichever step failed.
C1_DeinitOnceBeforeLeaving ==
    \A c \in Calls :
        /\ Len(obs[c].deinit) <= 1
        /\ (obs[c].deinit # <<>> => obs[c].deinit = <<call[c].session>>)
        /\ (call[c].session # NULL /\ (Leaving(c) \/ outcome[c].kind # "none")
               => obs[c].deinit = <<call[c].session>>)

\* C1 witness: a call that failed in the record phase has delivered its error,
\* with its session deinitialised once.
C1_Witness ==
    \E c \in Calls :
        /\ Ended(c) /\ outcome[c].kind = "raise"
        /\ obs[c].failPhase = "record"
        /\ call[c].session # NULL
        /\ obs[c].deinit = <<call[c].session>>

\* C2: after any call that opened a descriptor, the descriptor is closed and
\* the session released by the time the call has returned or raised.
C2_TransportReleased ==
    \A c \in Calls :
        Ended(c) /\ call[c].opened
            => /\ call[c].fd \notin world.openFds
               /\ call[c].session \notin world.liveSessions

\* The session states in which a record may be requested: the count is in, or
\* the previous record is in, and no response is pending.
ReadyForRequest == {<<"count", FALSE>>, <<"record", FALSE>>}

\* C3: chrony_request_record is never issued before the count request succeeded,
\* its responses were drained and a count of at least 1 was read.
C3_NoRecordRequestBeforeCount ==
    \A c \in Calls :
        obs[c].requested # <<>> \/ call[c].pc = "req_record"
            => /\ obs[c].reqCountOk
               /\ obs[c].countRead
               /\ obs[c].countReadPending = {0}
               /\ call[c].num_records >= 1
               /\ obs[c].requestedIn \subseteq ReadyForRequest

\* C3 witness: a second record was requested, the count read after its drain.
C3_Witness ==
    \E c \in Calls :
        /\ obs[c].requested = <<0, 1>>
        /\ call[c].pc = "rec_needs"
        /\ obs[c].countReadPending = {0}

\* C4: fields are looked up and decoded only when a chrony_request_record for
\* the current index has succeeded and chrony_needs_response has become false:
\* never with responses pending, never after the count phase alone.
C4_DecodeOnlyAfterRecordDrained ==
    \A c \in Calls :
        /\ obs[c].decodedIn \subseteq {<<"record", FALSE>>}
        /\ Len(obs[c].decoded) <= Len(obs[c].requested)
        /\ \A k \in 1..Len(obs[c].decoded) : obs[c].decoded[k] = obs[c].requested[k]
        /\ (call[c].pc = "extract"
               => /\ obs[c].recReqOk
                  /\ ~obs[c].lastNeeds
                  /\ sess[c].st = "record" /\ sess[c].pending = 0
                  /\ sess[c].idx = RecordIndex(c))

\* C4 witness: fields were decoded after a record drain of two chunks or more.
C4_Witness ==
    \E c \in Calls :
        /\ obs[c].decoded # <<>>
        /\ call[c].pc = "validate"
        /\ obs[c].processed >= 2

C6_DrainUntilFalse ==
    \A c \in Calls :
        /\ (call[c].pc \in {"count_needs", "rec_needs"}
               => obs[c].processed = obs[c].needsTrue)
        /\ (call[c].pc \in {"count_process", "rec_process"}
               => obs[c].lastNeeds /\ obs[c].needsTrue = obs[c].processed + 1)
        /\ (call[c].pc \in {"count_read", "extract"}
               => /\ ~obs[c].lastNeeds
                  /\ obs[c].processed = obs[c].needsTrue
                  /\ sess[c].pending = 0)
        /\ obs[c].countReadPending \subseteq {0}
        /\ \A t \in obs[c].decodedIn : ~t[2]

\* C6 witness: the count is about to be read after a drain of several chunks.
C6_Witness ==
    \E c \in Calls :
        /\ call[c].pc = "count_read"
        /\ obs[c].processed >= 2
        /\ obs[c].processed = obs[c].needsTrue

\* The count was read and is below 1.
CountBelowOne(c) == obs[c].countRead /\ call[c].num_records < 1

\* C7: get_tracking with a record count of zero or less raises a Data error
\* (no tracking records), requests no record and returns no TrackingStatus.
C7_TrackingNoRecordsRaises ==
    \A c \in Calls :
        call[c].op = "get_tracking" /\ CountBelowOne(c)
            => /\ obs[c].requested = <<>>
               /\ pend[c] = Raise("ChronyDataError", FALSE, 0,
                                  "No tracking records available")
               /\ (Ended(c) => outcome[c] = pend[c])

\* C7 witness: get_tracking has raised on a count of 0.
C7_Witness ==
    \E c \in Calls :
        /\ call[c].op = "get_tracking" /\ Ended(c)
        /\ obs[c].countRead /\ call[c].num_records = 0
        /\ outcome[c].exc = "ChronyDataError"

\* C8: get_sources and get_source_stats with a record count of zero or less
\* return an empty list: no error, no record request, and the session is
\* deinitialised before the return.
C8_EmptyListIsSuccess ==
    \A c \in Calls :
        call[c].op \in ListOps /\ CountBelowOne(c)
            => /\ obs[c].requested = <<>>
               /\ pend[c] = Return("list") /\ call[c].results = <<>>
               /\ (Leaving(c) => /\ obs[c].deinit = <<call[c].session>>
                                 /\ call[c].session \notin world.liveSessions)
               /\ (Ended(c) => outcome[c] = Return("list"))

\* C8 witness: get_source_stats has returned the empty list on a count of 0.
C8_Witness ==
    \E c \in Calls :
        /\ call[c].op = "get_source_stats" /\ Ended(c)
        /\ obs[c].countRead /\ call[c].num_records = 0
        /\ outcome[c].kind = "return" /\ call[c].results = <<>>

\* The record drain of a call with a count of at least 1 failed.
RecordDrainFailed(c) ==
    /\ obs[c].countRead /\ call[c].num_records >= 1
    /\ obs[c].failed = "process_response" /\ obs[c].failPhase = "record"

C10_ReturnsNone ==
    \A c \in Calls :
        call[c].op = "get_rtc_data" /\ Ended(c)
        /\ (CountBelowOne(c) \/ RecordDrainFailed(c))
            => outcome[c] = Return("None")


\* The library is loaded and the call has resolved its socket path.
PathResolved(c) ==
    world.available /\ call[c].pc \notin {"idle", "start", "find_path"}

\* x >= 0 for a float
NonNegative(x) == x.cls # "nan" /\ x.s >= 0

\* The indices 0 .. n-1 in increasing order.
UpTo(n) == [k \in 1..n |-> k - 1]

\* C11: a list operation whose count is n >= 1 and in which nothing fails asks
\* for each index 0 .. n-1 exactly once, in increasing order, and the list it
\* returns has n elements, element i being the record decoded after the request
\* for index i; at any time the requests made so far are 0, 1, 2, ... in order.
C11_OneRequestPerIndexInOrder ==
    \A c \in Calls :
        call[c].op \in ListOps =>
            /\ obs[c].requested = UpTo(Len(obs[c].requested))
            /\ (Ended(c) /\ outcome[c].kind = "return" /\ call[c].num_records >= 1 =>
                   /\ obs[c].requested = UpTo(call[c].num_records)
                   /\ obs[c].decoded = obs[c].requested
                   /\ Len(call[c].results) = call[c].num_records
                   /\ call[c].results = obs[c].extracted)

\* C11 witness: a list of two different records has been returned.
C11_Witness ==
    \E c \in Calls :
        /\ call[c].op \in ListOps /\ Ended(c) /\ outcome[c].kind = "return"
        /\ call[c].num_records = 2 /\ Len(call[c].results) = 2
        /\ call[c].results[1] # call[c].results[2]

\* The records a finished call has returned.
Returned(c) ==
    IF ~Ended(c) \/ outcome[c].kind # "return" THEN {}
    ELSE IF call[c].op \in ListOps
    THEN {call[c].results[k] : k \in DOMAIN call[c].results}
    ELSE {call[c].data}

\* C12: every record a query operation returns has passed its validator: a
\* returned Source has stratum in 0..15, reachability in 0..255, mode in 0..2,
\* state in 0..5, last_sample_ago >= 0 and latest_meas_err >= 0; a returned
\* TrackingStatus has stratum in 0..15, leap_status in 0..3 and non-negative
\* rms_offset, skew, root_delay, root_dispersion and update_interval.
C12_ReturnedRecordsAreValid ==
    \A c \in Calls : \A r \in Returned(c) :
        /\ Validate(call[c].op, r) = NoExc
        /\ (call[c].op = "get_sources" =>
               /\ r["stratum"] \in 0..15 /\ r["reachability"] \in 0..255
               /\ r["mode"] \in 0..2 /\ r["state"] \in 0..5
               /\ r["last_sample_ago"] >= 0 /\ NonNegative(r["latest_meas_err"]))
        /\ (call[c].op = "get_tracking" =>
               /\ r["stratum"] \in 0..15 /\ r["leap_status"] \in 0..3
               /\ \A f \in {"rms_offset", "skew", "root_delay", "root_dispersion",
                            "update_interval"} : NonNegative(r[f]))

\* C12 witness: get_sources has returned two records.
C12_Witness ==
    \E c \in Calls :
        call[c].op = "get_sources" /\ Cardinality(Returned(c)) = 2

\* Some step of the call's record loop failed: a request, a response, the
\* extraction or the validation of a record.
RecordFailed(c) ==
    \/ obs[c].failed # "none"
    \/ Len(obs[c].extracted) < Len(obs[c].decoded)
    \/ (call[c].pc \notin {"extract", "validate"}
           /\ Len(call[c].results) < Len(obs[c].extracted))

\* C13: a list query is all-or-nothing: if it returns, it returns the complete
\* list (every record of the count, or the empty list for a count below 1) and
\* no step has failed; a failure at record i makes the call raise and return no
\* list, though the records before i were fetched and validated.
C13_AllOrNothing ==
    \A c \in Calls :
        call[c].op \in ListOps /\ Ended(c) =>
            IF outcome[c].kind = "return"
            THEN /\ outcome[c].value = "list"
                 /\ ~RecordFailed(c)
                 /\ Len(call[c].results) =
                       IF call[c].num_records < 1 THEN 0 ELSE call[c].num_records
            ELSE outcome[c].kind = "raise" /\ outcome[c].value = "none"

\* C13 witness: the second record failed its validation after the first passed,
\* and the call has raised.
C13_Witness ==
    \E c \in Calls :
        /\ call[c].op \in ListOps /\ Ended(c) /\ outcome[c].kind = "raise"
        /\ Len(call[c].results) = 1 /\ Len(obs[c].extracted) = 2

\* The exception an open failure on an explicit path must be, by the status.
C14_AtOpen(c, exc) ==
    /\ outcome[c].kind = "raise" /\ outcome[c].exc = exc
    /\ call[c].fd < 0 /\ outcome[c].coded /\ outcome[c].code = call[c].fd
    /\ obs[c].opens = <<call[c].socket_path>> /\ ~obs[c].initCalled

\* C14 as stated: an explicit socket path is used verbatim, with no existence
\* check and no probing of the defaults; if it does not exist the failure
\* appears only at the open step, as a Connection error.
C14_ExplicitPathConnectionError ==
    \A c \in Calls :
        call[c].socket_path # NoPath =>
            /\ obs[c].probes = <<>>
            /\ (PathResolved(c) => call[c].actual_path = call[c].socket_path)
            /\ (PathResolved(c) /\ Ended(c) /\ ~PathExists(call[c].socket_path)
                   => C14_AtOpen(c, "ChronyConnectionError"))

\* C14, amended: an explicit socket path is used verbatim, with no existence
\* check and no probing of the defaults; if it does not exist the failure
\* appears only at the open step, as a Connection error carrying the status,
\* or as a Permission error when that status is -13.
C14_ExplicitPathFailsAtOpen ==
    \A c \in Calls :
        call[c].socket_path # NoPath =>
            /\ obs[c].probes = <<>>
            /\ (PathResolved(c) => call[c].actual_path = call[c].socket_path)
            /\ (PathResolved(c) /\ Ended(c) /\ ~PathExists(call[c].socket_path)
                   => C14_AtOpen(c, IF call[c].fd = EACCES
                                    THEN "ChronyPermissionError"
                                    ELSE "ChronyConnectionError"))

\* C14 witness: the open of an explicit path that does not exist returned -13
\* and the call has raised a Permission error.
C14_Witness ==
    \E c \in Calls :
        /\ call[c].socket_path = CustomPath /\ ~PathExists(CustomPath) /\ Ended(c)
        /\ call[c].fd = EACCES /\ outcome[c].exc = "ChronyPermissionError"
        /\ obs[c].opens = <<CustomPath>>

\* C15: without an explicit path the defaults are probed in their fixed order
\* and the first that exists is used (the first wins when both exist); when
\* none exists the call raises a Connection error whose message has both paths
\* and chrony_open_socket is not called.
C15_DefaultPathsInOrder ==
    \A c \in Calls :
        call[c].socket_path = NoPath /\ PathResolved(c) =>
            LET first == DEFAULT_SOCKET_PATHS[1]
                second == DEFAULT_SOCKET_PATHS[2]
            IN  /\ (PathExists(first) =>
                      call[c].actual_path = first /\ obs[c].probes = <<first>>)
                /\ (~PathExists(first) /\ PathExists(second) =>
                      call[c].actual_path = second /\ obs[c].probes = <<first, second>>)
                /\ (~PathExists(first) /\ ~PathExists(second) =>
                      /\ Ended(c) /\ obs[c].probes = <<first, second>>
                      /\ outcome[c].kind = "raise"
                      /\ outcome[c].exc = "ChronyConnectionError"
                      /\ outcome[c].names = <<first, second>>
                      /\ obs[c].opens = <<>>)
                /\ (obs[c].opens # <<>> => obs[c].opens = <<call[c].actual_path>>)

\* C15 witness: both defaults exist and the first has been opened.
C15_Witness ==
    \E c \in Calls :
        /\ call[c].socket_path = NoPath
        /\ \A k \in DOMAIN DEFAULT_SOCKET_PATHS : PathExists(DEFAULT_SOCKET_PATHS[k])
        /\ obs[c].opens = <<DEFAULT_SOCKET_PATHS[1]>>

\* C16: when chrony_open_socket returns a negative descriptor fd the call
\* raises a Permission error if fd is -13 or the path exists and is not both
\* readable and writable, a Connection error otherwise; the error carries fd as
\* its code, and no init_session, deinit_session or protocol request is made.
C16_OpenFailure ==
    \A c \in Calls :
        call[c].fd < 0 =>
            /\ Ended(c) /\ outcome[c].kind = "raise"
            /\ outcome[c].exc =
                  IF call[c].fd = -13
                     \/ (PathExists(call[c].actual_path) /\ ~PathAccess(call[c].actual_path))
                  THEN "ChronyPermissionError" ELSE "ChronyConnectionError"
            /\ outcome[c].coded /\ outcome[c].code = call[c].fd
            /\ ~obs[c].initCalled /\ obs[c].deinit = <<>> /\ ~obs[c].used

\* C16 witness: the open of a socket that exists but is not accessible returned
\* a status other than -13 and the call has raised a Permission error.
C16_Witness ==
    \E c \in Calls :
        /\ call[c].fd = -2 /\ world.fs[call[c].actual_path] = "noaccess"
        /\ outcome[c].exc = "ChronyPermissionError" /\ outcome[c].code = -2

\* C17: when chrony_init_session returns a non-zero status the call raises a
\* Connection error with that status as its code, and no count request, no
\* response processing, no record request and no field read is made.
C17_InitFailure ==
    \A c \in Calls :
        obs[c].initCalled /\ ~obs[c].initOk =>
            /\ call[c].err # 0 /\ ~obs[c].used
            /\ call[c].pc \in {"finally", "exit", "done"}
            /\ pend[c].kind = "raise" /\ pend[c].exc = "ChronyConnectionError"
            /\ pend[c].coded /\ pend[c].code = call[c].err
            /\ (Ended(c) => outcome[c] = pend[c])

\* C17 witness: chrony_init_session returned 10 and the caller has the error.
C17_Witness ==
    \E c \in Calls :
        /\ obs[c].initCalled /\ ~obs[c].initOk /\ Ended(c)
        /\ outcome[c].exc = "ChronyConnectionError" /\ outcome[c].code = 10

C19_LibraryUnavailable ==
    \A c \in Calls :
        ~world.available =>
            /\ call[c].pc \in {"idle", "start", "done"}
            /\ (Ended(c) =>
                   /\ outcome[c].kind = "raise" /\ outcome[c].exc = "ChronyLibraryError"
                   /\ ~outcome[c].coded)
            /\ obs[c].probes = <<>> /\ obs[c].opens = <<>> /\ call[c].actual_path = NoPath
            /\ ~obs[c].initCalled /\ ~obs[c].used /\ obs[c].deinit = <<>>

\* C19 witness: a call given an explicit path has raised the library error.
C19_Witness ==
    \E c \in Calls :
        /\ ~world.available /\ Ended(c) /\ call[c].socket_path = CustomPath
        /\ outcome[c].exc = "ChronyLibraryError"

\* C20: each of the five field decoders resolves the name to an index first;
\* on a negative index it raises a Data error naming the field and does not
\* call the typed getter; the typed getter is called only with a non-negative
\* index, the one the name resolved to.
C20_GetterOnlyWithResolvedIndex ==
    \A c \in Calls : \A d \in obs[c].fieldCalls :
        /\ d.kind \in {"float", "uinteger", "integer", "string", "timespec"}
        /\ (d.index < 0 <=> d.raised)
        /\ (d.called <=> d.index >= 0)
        /\ (d.raised => pend[c] = FieldNotFound(d.name)
                        /\ (Ended(c) => outcome[c] = pend[c]))

\* C20 witness: the record had no "skew" field: the float decoder raised
\* without calling the getter, after the timespec decoder had called its own,
\* and the caller has the error naming "skew".
C20_Witness ==
    \E c \in Calls :
        /\ Ended(c) /\ outcome[c].names = <<"skew">>
        /\ \E d \in obs[c].fieldCalls :
              d.kind = "float" /\ d.name = "skew" /\ d.raised /\ ~d.called
        /\ \E d \in obs[c].fieldCalls : d.kind = "timespec" /\ d.called

\* A validator has been called on its own.
Validated == fn.f = "validate"

\* The fields of the validated dict that differ from the well-formed one.
Changed ==
    LET base == BaseDict(fn.o)
    IN  {key \in DOMAIN fn.data : fn.data[key] # base[key]}

\* The error is a Data error with this message about this field.
DataErrorAbout(exc, msg, field) ==
    /\ exc.kind = "raise" /\ exc.exc = "ChronyDataError"
    /\ exc.msg = msg /\ exc.names = <<field>>

\* C22: the bounded integer checks are exact and inclusive: with all other
\* fields valid the tracking and the source validator accept iff
\* 0 <= stratum <= 15, the source validator iff also 0 <= reachability <= 255;
\* what they do not accept raises a Data error.
C22_BoundsExactInclusive ==
    Validated /\ fn.o \in {"get_tracking", "get_sources"}
              /\ Changed \subseteq {"stratum", "reachability"} =>
        LET inside == /\ 0 <= fn.data["stratum"] /\ fn.data["stratum"] <= 15
                      /\ (fn.o = "get_sources" =>
                             0 <= fn.data["reachability"] /\ fn.data["reachability"] <= 255)
        IN  IF inside THEN fn.exc = NoExc
            ELSE fn.exc.kind = "raise" /\ fn.exc.exc = "ChronyDataError"

\* C22 witness: the source validator has accepted stratum 15 with reachability 0.
C22_Witness ==
    /\ Validated /\ fn.o = "get_sources" /\ Changed = {"stratum", "reachability"}
    /\ fn.data["stratum"] = 15 /\ fn.data["reachability"] = 0 /\ fn.exc = NoExc

\* C23: with all other fields valid, a finite negative offset, last_offset,
\* frequency, residual_freq, resid_freq or freq_offset is accepted; a finite
\* negative ref_time, rms_offset, skew, root_delay, root_dispersion,
\* update_interval, std_dev, offset_err or latest_meas_err raises a Data error
\* saying the field must be non-negative; zero is accepted in all of them.
C23_SignPolicy ==
    Validated =>
        \A field \in Changed :
            Changed = {field} =>
                /\ (field \in {"offset", "last_offset", "frequency", "residual_freq",
                               "resid_freq", "freq_offset"}
                       /\ fn.data[field] \in {Fin(-1), Fin(0)}
                       => fn.exc = NoExc)
                /\ (field \in {"ref_time", "rms_offset", "skew", "root_delay",
                               "root_dispersion", "update_interval", "std_dev",
                               "offset_err", "latest_meas_err"}
                       => /\ (fn.data[field] = Fin(0) => fn.exc = NoExc)
                          /\ (fn.data[field] = Fin(-1) =>
                                 DataErrorAbout(fn.exc, "{} must be non-negative: {}", field)))

\* C23 witness: the sourcestats validator has refused a skew of -1.
C23_Witness ==
    /\ Validated /\ fn.o = "get_source_stats" /\ Changed = {"skew"}
    /\ fn.data["skew"] = Fin(-1) /\ fn.exc.names = <<"skew">>

\* C24: for each validator and each float field of its record type, NaN,
\* +infinity or -infinity in that field, all others valid, raises a Data error
\* naming the field as invalid, also where the field must be non-negative.
C24_NonFiniteRefused ==
    Validated =>
        \A field \in Changed \cap FloatFields(fn.o) :
            Changed = {field} /\ fn.data[field] \in {NaN, Inf(1), Inf(-1)} =>
                DataErrorAbout(fn.exc, "Invalid {}: {}", field)

\* C24 witness: the rtc validator has refused a ref_time of -infinity as invalid.
C24_Witness ==
    /\ Validated /\ fn.o = "get_rtc_data" /\ Changed = {"ref_time"}
    /\ fn.data["ref_time"] = Inf(-1) /\ fn.exc = Invalid("ref_time")

FirstField(fields, bad(_)) ==
    LET hits == {k \in DOMAIN fields : bad(fields[k])}
    IN  IF hits = {} THEN "" ELSE fields[Min(hits)]

\* The order of the checks of each validator: the integer checks, the floats
\* checked for finiteness, the floats checked for their sign.
C29_Order(o) ==
    CASE o = "get_tracking" ->
            [ints |-> <<"stratum">>,
             floats |-> <<"ref_time", "offset", "last_offset", "rms_offset",
                          "frequency", "residual_freq", "skew", "root_delay",
                          "root_dispersion", "update_interval">>,
             signs |-> <<"ref_time", "rms_offset", "skew", "root_delay",
                         "root_dispersion", "update_interval">>]
      [] o = "get_sources" ->
            [ints |-> <<"stratum", "reachability", "last_sample_ago">>,
             floats |-> <<"orig_latest_meas", "latest_meas", "latest_meas_err">>,
             signs |-> <<"latest_meas_err">>]
      [] o = "get_source_stats" ->
            [ints |-> <<"samples", "runs", "span">>,
             floats |-> <<"std_dev", "resid_freq", "skew", "offset", "offset_err">>,
             signs |-> <<"std_dev", "skew", "offset_err">>]
      [] o = "get_rtc_data" ->
            [ints |-> <<"samples", "runs", "span">>,
             floats |-> <<"ref_time", "offset", "freq_offset">>,
             signs |-> <<"ref_time">>]

\* An integer field is outside what its check allows.
C29_IntBad(field) ==
    CASE field = "stratum" -> fn.data[field] < 0 \/ fn.data[field] > 15
      [] field = "reachability" -> fn.data[field] < 0 \/ fn.data[field] > 255
      [] OTHER -> fn.data[field] < 0

C29_NotFinite(field) == fn.data[field].cls # "fin"

C29_BelowZero(field) == fn.data[field].cls = "fin" /\ fn.data[field].s < 0

\* C29: a validator reports the first violated check of a fixed order, and
\* only that one: the integer checks, then the finiteness of every float in
\* declaration order, then the signs; so stratum 16 with a NaN offset is an
\* invalid stratum, and a negative rms_offset with a NaN skew is an invalid skew.
C29_FirstViolationOnly ==
    Validated =>
        LET order == C29_Order(fn.o)
            int == FirstField(order.ints, C29_IntBad)
            float == FirstField(order.floats, C29_NotFinite)
            sign == FirstField(order.signs, C29_BelowZero)
        IN  IF int # "" THEN fn.exc.names = <<int>>
            ELSE IF float # "" THEN fn.exc = Invalid(float)
            ELSE IF sign # "" THEN fn.exc = MustBeNonNegative(sign)
            ELSE fn.exc = NoExc

\* C29 witness: a negative rms_offset with a NaN skew has been reported as an
\* invalid skew.
C29_Witness ==
    /\ Validated /\ fn.o = "get_tracking" /\ Changed = {"rms_offset", "skew"}
    /\ fn.data["rms_offset"] = Fin(-1) /\ fn.data["skew"] = NaN
    /\ fn.exc = Invalid("skew")

\* The four bytes of the formatted reference ID, most significant first.
C26_Bytes ==
    <<fn.ref_id.hi \div 256, fn.ref_id.hi % 256, fn.ref_id.lo \div 256, fn.ref_id.lo % 256>>

\* The text is the decimal numeral of n: digits only, no leading zero.
C26_Numeral(text, n) ==
    /\ Len(text) \in 1..3
    /\ \A k \in DOMAIN text : text[k] \in 48..57
    /\ Len(text) > 1 => text[1] # 48
    /\ n = CASE Len(text) = 1 -> text[1] - 48
             [] Len(text) = 2 -> 10 * (text[1] - 48) + (text[2] - 48)
             [] Len(text) = 3 -> 100 * (text[1] - 48) + 10 * (text[2] - 48) + (text[3] - 48)

\* The text is the four numerals of the bytes with dots (46) between them.
C26_DottedQuad(text, b) ==
    \E l1, l2, l3 \in 1..3 :
        LET d1 == l1 + 1
            d2 == d1 + l2 + 1
            d3 == d2 + l3 + 1
        IN  /\ Len(text) \in (d3 + 1)..(d3 + 3)
            /\ text[d1] = 46 /\ text[d2] = 46 /\ text[d3] = 46
            /\ C26_Numeral(SubSeq(text, 1, d1 - 1), b[1])
            /\ C26_Numeral(SubSeq(text, d1 + 1, d2 - 1), b[2])
            /\ C26_Numeral(SubSeq(text, d2 + 1, d3 - 1), b[3])
            /\ C26_Numeral(SubSeq(text, d3 + 1, Len(text)), b[4])

\* C26: when every byte of the reference ID is 0 or in 32..126 the name is
\* those bytes as ASCII characters with the trailing zero bytes removed
\* (0 -> "", 0x47505300 -> "GPS", 0x4C4F434C -> "LOCL"); otherwise it is the
\* dotted quad of the four bytes (0x7F000001 -> "127.0.0.1",
\* 0xC0A80101 -> "192.168.1.1").
C26_RefIdName ==
    fn.f = "ref_id_to_name" =>
        LET b == C26_Bytes
        IN  /\ IF \A k \in 1..4 : b[k] = 0 \/ b[k] \in 32..126
               THEN \E n \in 0..4 :
                        /\ fn.result = SubSeq(b, 1, n)
                        /\ \A k \in (n + 1)..4 : b[k] = 0
                        /\ n > 0 => b[n] # 0
               ELSE C26_DottedQuad(fn.result, b)
            /\ fn.ref_id = U32(0, 0) => fn.result = <<>>
            /\ fn.ref_id = U32(18256, 21248) => fn.result = <<71, 80, 83>>
            /\ fn.ref_id = U32(19535, 17228) => fn.result = <<76, 79, 67, 76>>
            /\ fn.ref_id = U32(32512, 1) =>
                   fn.result = <<49, 50, 55, 46, 48, 46, 48, 46, 49>>
            /\ fn.ref_id = U32(49320, 257) =>
                   fn.result = <<49, 57, 50, 46, 49, 54, 56, 46, 49, 46, 49>>

\* C26 witness: 0xC0A80101 has been formatted as an eleven-character name.
C26_Witness ==
    fn.f = "ref_id_to_name" /\ fn.ref_id = U32(49320, 257) /\ Len(fn.result) = 11

C21_UnknownEnumServed(c) ==
    \E e \in obs[c].enums :
        \/ e.name = "leap status" /\ e.value \notin 0..3
        \/ e.name = "state" /\ e.value \notin 0..5
        \/ e.name = "mode" /\ e.value \notin 0..2

\* C21: an enum value the daemon sends outside the known members makes the
\* operation fail with a Data error: nothing is returned, and no dict is
\* built with a default or an 'unknown' member in its place.
C21_UnknownEnumRaises ==
    \A c \in Calls :
        /\ C21_UnknownEnumServed(c) =>
              /\ pend[c].kind = "raise" /\ pend[c].exc = "ChronyDataError"
              /\ Ended(c) => outcome[c].kind = "raise" /\ outcome[c].exc = "ChronyDataError"
        /\ \A k \in DOMAIN obs[c].extracted :
              LET d == obs[c].extracted[k]
              IN  /\ "leap_status" \in DOMAIN d =>
                         [name |-> "leap status", value |-> d["leap_status"]] \in obs[c].enums
                  /\ "state" \in DOMAIN d =>
                         [name |-> "state", value |-> d["state"]] \in obs[c].enums
                  /\ "mode" \in DOMAIN d =>
                         [name |-> "mode", value |-> d["mode"]] \in obs[c].enums

\* C21 witness: a sources call was sent mode 3 and has raised a Data error.
C21_Witness ==
    \E c \in Calls :
        /\ Ended(c) /\ call[c].op = "get_sources"
        /\ [name |-> "mode", value |-> 3] \in obs[c].enums
        /\ outcome[c].kind = "raise" /\ outcome[c].exc = "ChronyDataError"

\* The call is in one of its two drain loops.
InDrain(c) == call[c].pc \in {"count_needs", "count_process", "rec_needs", "rec_process"}

\* C30 as stated: while the session signals needs_response and
\* chrony_process_response returns 0 the drain loop is bounded: after a fixed
\* number of responses it stops, so a call in a drain loop always leaves it.
C30_DrainLoopStops ==
    \A c \in Calls : InDrain(c) ~> ~InDrain(c)

\* C30, amended: the drain loop has no bound of its own. It calls
\* chrony_process_response after every true answer of chrony_needs_response,
\* however many there have been, and it is left only after a false answer or
\* with the failure of a chrony_process_response.
C30_DrainLoopFollowsSignal ==
    \A c \in Calls :
        /\ call[c].pc \in {"count_needs", "rec_needs"} =>
               obs[c].processed = obs[c].needsTrue
        /\ call[c].pc \in {"count_process", "rec_process"} =>
               obs[c].lastNeeds /\ obs[c].needsTrue = Counted(obs[c].processed)
        /\ call[c].pc \in {"count_read", "extract"} => ~obs[c].lastNeeds
        /\ obs[c].lastNeeds /\ call[c].pc \in {"finally", "exit", "done"} =>
               obs[c].failed = "process_response"

\* C30 witness: the session has signalled needs_response more often than any
\* complete reply has chunks, and the call is about to process a response again.
C30_Witness ==
    \E c \in Calls :
        /\ call[c].pc = "count_process" /\ obs[c].processed > MaxChunks
        /\ obs[c].failed = "none"

\* The call has a session that has been initialised and not yet released.
C27_Live(c) == sess[c].st \notin {"none", "deinit"}

\* One of the call's own steps failed: its open, its init, a protocol step on
\* its session, its record count, the extraction or the validation of a
\* record it was sent.
C27_OwnFailure(c) ==
    \/ call[c].fd < 0
    \/ obs[c].initCalled /\ ~obs[c].initOk
    \/ obs[c].failed # "none"
    \/ CountBelowOne(c) /\ call[c].op \notin ListOps
    \/ Len(obs[c].extracted) < Len(obs[c].decoded)
    \/ \E k \in DOMAIN obs[c].extracted : Validate(call[c].op, obs[c].extracted[k]) # NoExc

\* C27: calls share no state. With the steps of two calls interleaved in any
\* order each call opens its own socket and initialises its own session, every
\* session operation of a call is on the session that call initialised, each
\* session is released once and only by its owner, and a call raises exactly
\* when one of its own steps failed, whatever happened to the other call.
C27_CallsIndependent ==
    \A c \in Calls :
        /\ Len(obs[c].opens) <= 1 /\ (call[c].opened => Len(obs[c].opens) = 1)
        /\ obs[c].targets \subseteq {c}
        /\ obs[c].deinitOf \in {<<>>, <<c>>}
        /\ Leaving(c) /\ call[c].session # NULL => obs[c].deinitOf = <<c>>
        /\ \A d \in Calls \ {c} :
              C27_Live(c) /\ C27_Live(d) =>
                  /\ call[c].session # call[d].session
                  /\ call[c].fd # call[d].fd
        /\ Ended(c) => (outcome[c].kind = "raise" <=> C27_OwnFailure(c))

\* C27 witness: the second call was initialised while the first had its
\* session, and it has returned its value while the first, with a failed
\* step, has not yet released its session.
C27_Witness ==
    /\ call[1].pc = "finally" /\ pend[1].kind = "raise" /\ C27_Live(1)
    /\ Ended(2) /\ outcome[2].kind = "return"
    /\ obs[2].deinitOf = <<2>> /\ obs[2].deinit # obs[1].deinit
    /\ call[2].session # call[1].session

\* C32 as stated: a Permission error is a kind of Connection error: whenever a
\* call raises a Permission error, a caller handling Connection errors
\* receives it.
C32_PermissionIsConnection ==
    \A c \in Calls :
        Ended(c) /\ outcome[c].exc = "ChronyPermissionError" =>
            ExceptClauseReceives("ChronyConnectionError", outcome[c])

\* C32, amended: Permission and Connection are sibling kinds of ChronyError.
\* A Permission error a call raises is received by a handler of Permission
\* errors or of ChronyError and not by a handler of Connection errors, and a
\* Connection error is not received by a handler of Permission errors.
C32_PermissionIsSibling ==
    \A c \in Calls :
        /\ Ended(c) /\ outcome[c].exc = "ChronyPermissionError" =>
               /\ ExceptClauseReceives("ChronyPermissionError", outcome[c])
               /\ ExceptClauseReceives("ChronyError", outcome[c])
               /\ ~ExceptClauseReceives("ChronyConnectionError", outcome[c])
        /\ Ended(c) /\ outcome[c].exc = "ChronyConnectionError" =>
               /\ ExceptClauseReceives("ChronyError", outcome[c])
               /\ ~ExceptClauseReceives("ChronyPermissionError", outcome[c])

\* C32 witness: a call has raised a Permission error.
C32_Witness ==
    \E c \in Calls :
        /\ Ended(c) /\ outcome[c].kind = "raise"
        /\ outcome[c].exc = "ChronyPermissionError" /\ call[c].fd < 0

\* C33: when every byte of a reference ID is 0 or printable the name is the
\* bytes before the first zero byte, so it never contains a NUL character,
\* also when printable bytes follow a zero byte, as in 0x47005053.
C33_NameEndsAtFirstZero ==
    fn.f = "ref_id_to_name" =>
        LET b == C26_Bytes
            zeros == {k \in 1..4 : b[k] = 0}
        IN  (\A k \in 1..4 : b[k] = 0 \/ b[k] \in 32..126) =>
                /\ fn.result = SubSeq(b, 1, IF zeros = {} THEN 4 ELSE Min(zeros) - 1)
                /\ \A k \in DOMAIN fn.result : fn.result[k] # 0

\* The source extractor has been called on its own.
SourceExtracted == fn.f = "extract" /\ fn.o = "get_sources"

\* The record has the field in its field table.
HasField(rec, name) == \E k \in DOMAIN rec.fields : rec.fields[k] = name

\* The names of the fields the extractor looked up, in order.
LookedUp == [k \in DOMAIN fn.calls |-> fn.calls[k].name]

\* C34: the source extractor reads the address first. A non-empty address is
\* used unchanged and the reference ID is not looked up, so that a record
\* without the reference ID field gives no error; an empty address, also a
\* null string, makes it read the reference ID and use its formatted name.
C34_AddressFallback ==
    SourceExtracted /\ HasField(fn.rec, "address") =>
        LET address == fn.rec.val["address"]
            ref_id == fn.rec.val["reference ID"]
        IN  /\ LookedUp[1] = "address"
            /\ IF ~address.null /\ address.bytes # <<>>
               THEN /\ \A k \in DOMAIN LookedUp : LookedUp[k] # "reference ID"
                    /\ fn.exc = NoExc => fn.data["address"] = address.bytes
                    /\ ~HasField(fn.rec, "reference ID")
                          /\ (\A k \in DOMAIN fn.rec.val : fn.rec.val[k] = BaseRecord("sources").val[k])
                          => fn.exc = NoExc
               ELSE /\ Len(LookedUp) >= 2 /\ LookedUp[2] = "reference ID"
                    /\ ~HasField(fn.rec, "reference ID") =>
                           fn.exc = FieldNotFound("reference ID")
                    /\ fn.exc = NoExc /\ ref_id = U32(18256, 21248) =>
                           fn.data["address"] = <<71, 80, 83>>
                    /\ fn.exc = NoExc /\ ref_id = U32(32512, 1) =>
                           fn.data["address"] = <<49, 50, 55, 46, 48, 46, 48, 46, 49>>
                    /\ HasField(fn.rec, "reference ID") /\ ref_id = U32(32512, 1)
                          /\ address = NullString
                          => fn.exc = NoExc

\* C34 witness: a source record with an address and without the reference ID
\* field has been extracted.
C34_Witness ==
    /\ SourceExtracted /\ ~HasField(fn.rec, "reference ID")
    /\ fn.rec.val["address"] = CString(<<49>>)
    /\ fn.exc = NoExc /\ fn.data["address"] = <<49>>

\* The extraction or the validation of the record decoded last has failed.
ExtractionOrValidationFailed(c) ==
    \/ Len(obs[c].extracted) < Len(obs[c].decoded)
    \/ /\ call[c].pc \in {"finally", "exit", "done"}
       /\ pend[c].kind = "raise"
       /\ Len(call[c].results) < Len(obs[c].extracted)

\* C35: the per-record steps of a list operation are strictly sequential: the
\* request for index i+1 is made only after record i has been decoded,
\* validated and appended, and once the extraction or the validation of
\* record i has failed, the last request ever made is the one for index i.
C35_StrictlySequential ==
    \A c \in Calls :
        call[c].op \in ListOps =>
            /\ Len(obs[c].requested) <= Len(call[c].results) + 1
            /\ Len(obs[c].decoded) <= Len(obs[c].requested)
            /\ Len(obs[c].requested) <= Len(obs[c].decoded) + 1
            /\ (call[c].pc \in {"extract", "validate"} =>
                   /\ sess[c].pending = 0
                   /\ Len(obs[c].requested) = Len(call[c].results) + 1)
            /\ (ExtractionOrValidationFailed(c) =>
                   /\ Len(obs[c].requested) = Len(obs[c].decoded)
                   /\ \A k \in DOMAIN obs[c].requested :
                         obs[c].requested[k] <= Len(obs[c].decoded) - 1
                   /\ call[c].pc \in {"finally", "exit", "done"})

\* C35 witness: record 0 of two failed its extraction or validation and the
\* call has ended with index 0 the only one requested.
C35_Witness ==
    \E c \in Calls :
        /\ call[c].op \in ListOps /\ Ended(c) /\ call[c].num_records = 2
        /\ ExtractionOrValidationFailed(c) /\ obs[c].failed = "none"
        /\ obs[c].requested = <<0>> /\ outcome[c].kind = "raise"

\* The singleton operations.
SingletonOps == Ops \ ListOps

\* C36: get_tracking and get_rtc_data fetch index 0 only: the one request they
\* make is for index 0, they make it whenever the count is at least 1, and
\* with a count above 1 the records 1 .. count-1 are never requested and the
\* call returns record 0 if nothing fails.
C36_SingletonFetchesIndexZero ==
    \A c \in Calls :
        call[c].op \in SingletonOps =>
            /\ obs[c].requested \in {<<>>, <<0>>}
            /\ obs[c].decoded \in {<<>>, <<0>>}
            /\ (obs[c].countRead /\ call[c].num_records >= 1
                   /\ call[c].pc \notin {"count_read", "req_record"}
                   => obs[c].requested = <<0>>)
            /\ (Ended(c) /\ obs[c].countRead /\ call[c].num_records > 1
                   /\ obs[c].failed = "none" /\ ~ExtractionOrValidationFailed(c)
                   => /\ outcome[c] = Return(RecordType(call[c].op))
                      /\ obs[c].decoded = <<0>>
                      /\ Returned(c) = {obs[c].extracted[1]})

\* C36 witness: a singleton operation that read a count of two has returned.
C36_Witness ==
    \E c \in Calls :
        /\ call[c].op \in SingletonOps /\ Ended(c) /\ call[c].num_records = 2
        /\ outcome[c].kind = "return" /\ obs[c].requested = <<0>>

\* C37: chrony_deinit_session is never called on an absent session: a call
\* that failed at path resolution or at chrony_open_socket never reached
\* chrony_init_session and makes no deinit call; a chrony_init_session that
\* failed and left the handle null is followed by no deinit call; every
\* deinit call is given a non-null handle, and no handle is given twice.
C37_DeinitOnlyOnLiveHandle ==
    \A c \in Calls :
        /\ \A k \in DOMAIN obs[c].deinit :
              /\ obs[c].deinit[k] # NULL
              /\ obs[c].deinit[k] \in HandlePool
              /\ \A j \in DOMAIN obs[c].deinit : obs[c].deinit[j] = obs[c].deinit[k] => j = k
        /\ (~obs[c].initCalled => obs[c].deinit = <<>> /\ call[c].session = NULL)
        /\ (Ended(c) /\ (call[c].fd < 0 \/ ~call[c].opened) =>
               ~obs[c].initCalled /\ obs[c].deinit = <<>>)
        /\ (obs[c].initCalled /\ call[c].session = NULL =>
               /\ obs[c].deinit = <<>>
               /\ ~obs[c].initOk
               /\ Ended(c) => outcome[c] = InitFailure(call[c].err))

\* C37 witness: chrony_init_session failed and left the handle null, and the
\* call has ended without a deinit call.
C37_Witness ==
    \E c \in Calls :
        /\ Ended(c) /\ obs[c].initCalled /\ call[c].session = NULL
        /\ obs[c].deinit = <<>> /\ outcome[c].kind = "raise"

\* A step of the call other than the record drain returned a non-zero status
\* after the session was initialised.
OtherStepFailed(c) ==
    \/ obs[c].failed = "request_report_number_records"
    \/ obs[c].failed = "process_response" /\ obs[c].failPhase = "count"
    \/ obs[c].failed = "request_record"

C38_SynchronizedIffReferenceId ==
    \A c \in Calls :
        call[c].op = "get_tracking" =>
            \A status \in Returned(c) :
                /\ is_synchronized(status) <=> status["reference_id"] # U32(0, 0)
                /\ status["stratum"] \in 0..15

\* C38 witness: get_tracking has returned a status with reference ID 0, which
\* is_synchronized() reports as not synchronised.
C38_Witness ==
    \E c \in Calls :
        /\ call[c].op = "get_tracking"
        /\ \E status \in Returned(c) :
              status["reference_id"] = U32(0, 0) /\ ~is_synchronized(status)

\* The call has handed its result or its exception to the caller.
Terminated(c) == Ended(c) /\ outcome[c].kind \in {"return", "raise"}

\* The session of the call, if it had one, has been released.
TornDown(c) ==
    call[c].session # NULL =>
        /\ call[c].session \notin world.liveSessions
        /\ sess[c].st = "deinit"
        /\ obs[c].deinit = <<call[c].session>>

\* C31: if the daemon completes each of its replies (after finitely many
\* responses chrony_needs_response reports false, or a
\* chrony_process_response fails) and the record count is finite, every query
\* call eventually returns or raises, with its session torn down. With a
\* daemon that never completes a reply nothing else ends the drain loop: a
\* response processed with status 0 leaves the call in the loop with the
\* session still signalling, so the call can stay there forever.
C31_TerminatesUnlessEndlessReply ==
    /\ \A c \in {1} :
          (call[c].pc = "start" /\ ~world.endless) ~> (Terminated(c) /\ TornDown(c))
    /\ [][\A c \in Calls :
            world.endless /\ call[c].pc \in {"count_process", "rec_process"}
            /\ call'[c].pc \notin {"count_process", "rec_process", "finally"}
            => /\ call'[c].pc = (IF call[c].pc = "count_process"
                                 THEN "count_needs" ELSE "rec_needs")
               /\ NeedsResponse(sess'[c])
               /\ sess'[c].pending = sess[c].pending]_vars

\* C31 witness: a call to a daemon that completes its replies has fetched two
\* records, each in replies of several responses, and has returned with its
\* session torn down.
C31_Witness ==
    \E c \in Calls :
        /\ ~world.endless /\ Terminated(c) /\ TornDown(c)
        /\ call[c].session # NULL /\ call[c].num_records = MaxRecords
        /\ outcome[c].kind = "return" /\ obs[c].processed >= 1

====
